---- MODULE Spec2Model ----
(***************************************************************************)
(* Model of the storefront's API access and session layer                  *)
(* (src/src/lib/apiClient.ts): the persisted session (localStorage), the   *)
(* request executor apiRequest and the endpoint groups auth, products,     *)
(* cart and orders; and of three pages that call it: StaffManagement       *)
(* (src/src/pages/admin/CustomerManagement.tsx), Checkout                  *)
(* (src/src/pages/Checkout.tsx) and Analytics                              *)
(* (src/src/pages/admin/Analytics.tsx).  An async handler of a page is one *)
(* action up to each await and one action for each resumption.             *)
(*                                                                         *)
(* Strings are sequences of atoms.  An atom is either one character that   *)
(* some conversion of the program treats specially (a quote, a brace, an   *)
(* ampersand, a digit ...) or a run of characters no conversion touches     *)
(* ("tok-abc", "/cart/add.php").  JavaScript values are records            *)
(* [t, b, n, s, o]: the type tag and the boolean, number, string and       *)
(* object payload (an object is the sequence of its [k, v] properties in   *)
(* insertion order).                                                       *)
(***************************************************************************)
EXTENDS Integers, Sequences, FiniteSets, TLC

VARIABLES
    localStorage,   \* the browser's key-value store: key -> Null or a string
    logoutPc,       \* position inside auth.logout: "idle" or "removedToken"
    session,        \* what the caller last persisted and has not logged out of
    seen,           \* what another reader of the store last observed
    ret,            \* name and result of the last synchronous read operation
    calls,          \* the executor calls in flight, one slot per call
    fetchLog,       \* every request handed to fetch, in order
    staff,          \* the state of the StaffManagement page
    checkout,       \* the state of the Checkout page
    analytics       \* the state of the Analytics page

storeVars == <<localStorage, logoutPc, session, seen, ret>>
netVars == <<calls, fetchLog>>
pageVars == <<staff, checkout, analytics>>
vars == <<localStorage, logoutPc, session, seen, ret, calls, fetchLog, staff, checkout, analytics>>

-----------------------------------------------------------------------------
(* JavaScript values *)

JSValue(t, b, n, s, o) == [t |-> t, b |-> b, n |-> n, s |-> s, o |-> o]
Undefined == JSValue("undefined", FALSE, 0, <<>>, <<>>)
Null == JSValue("null", FALSE, 0, <<>>, <<>>)
Bool(b) == JSValue("boolean", b, 0, <<>>, <<>>)
Num(n) == JSValue("number", FALSE, n, <<>>, <<>>)
Str(s) == JSValue("string", FALSE, 0, s, <<>>)
Obj(props) == JSValue("object", FALSE, 0, <<>>, props)
\* A property: its key (a string) and its value.
KeyValue(key, v) == [k |-> key, v |-> v]
Prop(name, v) == KeyValue(<<name>>, v)

\* ToBoolean: undefined, null, false, 0 and "" are falsy, all else is truthy.
ToBoolean(v) ==
    CASE v.t = "undefined" -> FALSE
      [] v.t = "null" -> FALSE
      [] v.t = "boolean" -> v.b
      [] v.t = "number" -> v.n # 0
      [] v.t = "string" -> v.s # <<>>
      [] OTHER -> TRUE

Digit(d) == <<"0", "1", "2", "3", "4", "5", "6", "7", "8", "9">>[d + 1]

\* Number.prototype.toString for the non-negative integers of the model.
RECURSIVE NumberToString(_)
NumberToString(n) ==
    IF n < 10 THEN <<Digit(n)>>
    ELSE NumberToString(n \div 10) \o <<Digit(n % 10)>>

\* The property keys of an object, in insertion order.
Keys(obj) == [i \in 1..Len(obj.o) |-> obj.o[i].k]
HasKey(obj, name) == \E i \in 1..Len(obj.o) : obj.o[i].k = <<name>>

\* obj[k] on a value that is neither null nor undefined.
Get(obj, name) ==
    IF HasKey(obj, name)
    THEN obj.o[CHOOSE i \in 1..Len(obj.o) : obj.o[i].k = <<name>>].v
    ELSE Undefined


-----------------------------------------------------------------------------
(* JSON.stringify and JSON.parse *)

Digits == {"0", "1", "2", "3", "4", "5", "6", "7", "8", "9"}
DigitValue(a) == CHOOSE d \in 0..9 : Digit(d) = a

\* The characters JSON.stringify escapes inside a string literal.
RECURSIVE JSONescape(_)
JSONescape(s) ==
    IF s = <<>> THEN <<>>
    ELSE (IF Head(s) \in {"\"", "\\"} THEN <<"\\", Head(s)>> ELSE <<Head(s)>>)
         \o JSONescape(Tail(s))

JSONquote(s) == <<"\"">> \o JSONescape(s) \o <<"\"">>

\* JSON.stringify of a value; a property whose value is undefined is skipped.
RECURSIVE JSONstringify(_)
RECURSIVE JSONmembers(_, _)
JSONmembers(props, first) ==
    IF props = <<>> THEN <<>>
    ELSE IF Head(props).v.t = "undefined" THEN JSONmembers(Tail(props), first)
    ELSE (IF first THEN <<>> ELSE <<",">>)
         \o JSONquote(Head(props).k) \o <<":">> \o JSONstringify(Head(props).v)
         \o JSONmembers(Tail(props), FALSE)

JSONstringify(v) ==
    CASE v.t = "null" -> <<"null">>
      [] v.t = "boolean" -> IF v.b THEN <<"true">> ELSE <<"false">>
      [] v.t = "number" -> NumberToString(v.n)
      [] v.t = "string" -> JSONquote(v.s)
      [] OTHER -> <<"{">> \o JSONmembers(v.o, TRUE) \o <<"}">>

\* The parser: each step returns [ok, v, rest], rest being the unread text.
ParseFail == [ok |-> FALSE, v |-> Undefined, rest |-> <<>>]
Parsed(v, rest) == [ok |-> TRUE, v |-> v, rest |-> rest]

RECURSIVE ParseString(_, _)
ParseString(text, acc) ==
    IF text = <<>> THEN ParseFail
    ELSE IF Head(text) = "\"" THEN Parsed(Str(acc), Tail(text))
    ELSE IF Head(text) = "\\"
         THEN IF Len(text) >= 2 /\ text[2] \in {"\"", "\\"}
              THEN ParseString(Tail(Tail(text)), Append(acc, text[2]))
              ELSE ParseFail
    ELSE ParseString(Tail(text), Append(acc, Head(text)))

RECURSIVE ParseNumber(_, _)
ParseNumber(text, acc) ==
    IF text # <<>> /\ Head(text) \in Digits
    THEN ParseNumber(Tail(text), 10 * acc + DigitValue(Head(text)))
    ELSE Parsed(Num(acc), text)

\* A property parsed twice keeps its first place and takes the later value.
SetProp(props, k, v) ==
    IF \E i \in 1..Len(props) : props[i].k = k
    THEN [i \in 1..Len(props) |-> IF props[i].k = k THEN KeyValue(k, v) ELSE props[i]]
    ELSE Append(props, KeyValue(k, v))

\* The one element of a singleton.  The parser names its intermediate
\* results by binding them over singletons, which evaluates each once.
The(S) == CHOOSE x \in S : TRUE

RECURSIVE ParseValue(_)
RECURSIVE ParseMembers(_, _)
RECURSIVE MembersAfterKey(_, _)
RECURSIVE MembersAfterValue(_, _, _)
ParseMembers(text, props) ==
    IF text = <<>> \/ Head(text) # "\"" THEN ParseFail
    ELSE The({MembersAfterKey(key, props) : key \in {ParseString(Tail(text), <<>>)}})

MembersAfterKey(key, props) ==
    IF ~key.ok \/ key.rest = <<>> \/ Head(key.rest) # ":" THEN ParseFail
    ELSE The({MembersAfterValue(key, val, props) : val \in {ParseValue(Tail(key.rest))}})

MembersAfterValue(key, val, props) ==
    IF ~val.ok \/ val.rest = <<>> THEN ParseFail
    ELSE The({ IF Head(val.rest) = "}" THEN Parsed(Obj(more), Tail(val.rest))
               ELSE IF Head(val.rest) = "," THEN ParseMembers(Tail(val.rest), more)
               ELSE ParseFail : more \in {SetProp(props, key.v.s, val.v)} })

ParseValue(text) ==
    IF text = <<>> THEN ParseFail
    ELSE LET c == Head(text) IN
         CASE c = "null" -> Parsed(Null, Tail(text))
           [] c = "true" -> Parsed(Bool(TRUE), Tail(text))
           [] c = "false" -> Parsed(Bool(FALSE), Tail(text))
           [] c = "\"" -> ParseString(Tail(text), <<>>)
           [] c \in Digits ->
                IF c = "0" /\ Len(text) >= 2 /\ text[2] \in Digits THEN ParseFail
                ELSE ParseNumber(text, 0)
           [] c = "{" ->
                IF Len(text) >= 2 /\ text[2] = "}"
                THEN Parsed(Obj(<<>>), Tail(Tail(text)))
                ELSE ParseMembers(Tail(text), <<>>)
           [] OTHER -> ParseFail

\* JSON.parse: [ok, v]; ok = FALSE stands for the SyntaxError it throws.
JSONparse(text) ==
    The({ IF r.ok /\ r.rest = <<>> THEN [ok |-> TRUE, v |-> r.v]
          ELSE [ok |-> FALSE, v |-> Undefined] : r \in {ParseValue(text)} })

\* Deep equality of two values: same type and payload, and for objects the
\* same keys with deep-equal values, in any order.
RECURSIVE DeepEqual(_, _)
DeepEqual(a, b) ==
    IF a.t # "object" \/ b.t # "object" THEN a = b
    ELSE /\ {a.o[i].k : i \in 1..Len(a.o)} = {b.o[i].k : i \in 1..Len(b.o)}
         /\ Len(a.o) = Len(b.o)
         /\ \A i \in 1..Len(a.o) :
                \E j \in 1..Len(b.o) : /\ b.o[j].k = a.o[i].k
                                       /\ DeepEqual(a.o[i].v, b.o[j].v)

-----------------------------------------------------------------------------
(* The persisted session *)

TOKEN_KEY == "auth_token"
USER_KEY == "user"

\* Storage.getItem, setItem (which stores a string) and removeItem (which
\* leaves a missing key missing).
getItem(key) == localStorage[key]
setItem(store, key, s) == [store EXCEPT ![key] = Str(s)]
removeItem(store, key) == [store EXCEPT ![key] = Null]

EmptyStore == [k \in {TOKEN_KEY, USER_KEY} |-> Null]

\* The tokens and user summaries a caller persists.
Tokens == {<<>>, <<"tok-abc">>, <<"tok-xyz">>}
Users ==
    { Obj(<<Prop("id", Str(<<"u1">>)), Prop("email", Str(<<"ann@shop.io">>)),
            Prop("full_name", Null)>>),
      Obj(<<Prop("id", Str(<<"u2">>)), Prop("email", Str(<<"bo@shop.io">>)),
            Prop("full_name", Str(<<"Bo ", "\"", "B", "\"", " Li">>)),
            Prop("role", Str(<<"admin">>))>>),
      Obj(<<Prop("id", Str(<<"u3">>)), Prop("email", Str(<<"cy@shop.io">>)),
            Prop("full_name", Str(<<"C", "\\", "y">>)),
            Prop("role", Str(<<>>))>>) }

NoSession == [has |-> FALSE, token |-> <<>>, user |-> Null]
NoRet == [op |-> "none", by |-> "none", threw |-> FALSE, v |-> Undefined]
Returned(op, by, v) == [op |-> op, by |-> by, threw |-> FALSE, v |-> v]
Threw(op, by) == [op |-> op, by |-> by, threw |-> TRUE, v |-> Undefined]

getAuthToken == getItem(TOKEN_KEY)

\* A variant that tests the token against null only.
isAuthenticated_NotNull == getAuthToken.t # "null"
isAuthenticated == ToBoolean(getAuthToken)

\* A variant that returns the stored text without parsing it.
getCurrentUser_NoParse ==
    IF ToBoolean(getItem(USER_KEY)) THEN [threw |-> FALSE, v |-> getItem(USER_KEY)]
    ELSE [threw |-> FALSE, v |-> Null]

\* A variant that catches the SyntaxError and returns null.
getCurrentUser_Guarded ==
    LET userStr == getItem(USER_KEY) IN
    IF ToBoolean(userStr) /\ JSONparse(userStr.s).ok
    THEN [threw |-> FALSE, v |-> JSONparse(userStr.s).v]
    ELSE [threw |-> FALSE, v |-> Null]

\* auth.getCurrentUser: [threw, v]; JSON.parse throws on a malformed value.
getCurrentUser ==
    LET userStr == getItem(USER_KEY) IN
    IF ToBoolean(userStr)
    THEN LET r == JSONparse(userStr.s) IN [threw |-> ~r.ok, v |-> r.v]
    ELSE [threw |-> FALSE, v |-> Null]

\* The caller (the sign-in flow) persists a session: the token string under
\* the token key and the JSON-serialized user under the user key.
SetSession(token, user) ==
    /\ logoutPc = "idle"
    /\ localStorage' = setItem(setItem(localStorage, TOKEN_KEY, token),
                               USER_KEY, JSONstringify(user))
    /\ session' = [has |-> TRUE, token |-> token, user |-> user]
    /\ ret' = NoRet
    /\ UNCHANGED <<logoutPc, seen, calls, fetchLog>>
    /\ UNCHANGED pageVars

\* auth.logout, first statement: localStorage.removeItem('auth_token').
\* A variant of logout that forgets the token.
RemovedTokenStore_Kept == localStorage
RemovedTokenStore == removeItem(localStorage, TOKEN_KEY)
\* A variant of logout that aborts the requests in flight.
LogoutRemoveToken_Abort ==
    /\ logoutPc = "idle"
    /\ localStorage' = RemovedTokenStore
    /\ logoutPc' = "removedToken"
    /\ ret' = NoRet
    /\ calls' = [c \in 1..Len(calls) |->
                    IF calls[c].status = "fetching"
                    THEN [calls[c] EXCEPT !.status = "rejected",
                                          !.error = [name |-> "AbortError",
                                                     message |-> <<"signal is aborted">>]]
                    ELSE calls[c]]
    /\ UNCHANGED <<session, seen, fetchLog>>
    /\ UNCHANGED pageVars
LogoutRemoveToken ==
    /\ logoutPc = "idle"
    /\ localStorage' = RemovedTokenStore
    /\ logoutPc' = "removedToken"
    /\ ret' = NoRet
    /\ UNCHANGED <<session, seen, calls, fetchLog>>
    /\ UNCHANGED pageVars

\* auth.logout, second statement: localStorage.removeItem('user').
\* A variant of logout that forgets the user.
RemovedUserStore_Kept == localStorage
RemovedUserStore == removeItem(localStorage, USER_KEY)
LogoutRemoveUser ==
    /\ logoutPc = "removedToken"
    /\ localStorage' = RemovedUserStore
    /\ logoutPc' = "idle"
    /\ session' = NoSession
    /\ ret' = Returned("logout", "self", Undefined)
    /\ UNCHANGED <<seen, calls, fetchLog>>
    /\ UNCHANGED pageVars

\* localStorage belongs to the origin: any script of the origin (another
\* page, an earlier release of the application) can leave any string under
\* the user key.
StoredUserTexts ==
    { <<>>, <<"null">>, <<"undefined">>, <<"{", "\"", "id", "\"", ":">>,
      <<"[object Object]">> }
StorageWrite(text) ==
    /\ logoutPc = "idle"
    /\ localStorage' = setItem(localStorage, USER_KEY, text)
    /\ session' = NoSession
    /\ ret' = NoRet
    /\ UNCHANGED <<logoutPc, seen, calls, fetchLog>>
    /\ UNCHANGED pageVars

\* The synchronous reads of this page; JavaScript runs logout to completion,
\* so none of them runs between its two statements.
IsAuthenticated ==
    /\ logoutPc = "idle"
    /\ ret' = Returned("isAuthenticated", "self", Bool(isAuthenticated))
    /\ UNCHANGED <<localStorage, logoutPc, session, seen, calls, fetchLog>>
    /\ UNCHANGED pageVars

GetCurrentUser ==
    /\ logoutPc = "idle"
    /\ ret' = IF getCurrentUser.threw THEN Threw("getCurrentUser", "self")
              ELSE Returned("getCurrentUser", "self", getCurrentUser.v)
    /\ UNCHANGED <<localStorage, logoutPc, session, seen, calls, fetchLog>>
    /\ UNCHANGED pageVars

GetAuthToken ==
    /\ logoutPc = "idle"
    /\ ret' = Returned("getAuthToken", "self", getAuthToken)
    /\ UNCHANGED <<localStorage, logoutPc, session, seen, calls, fetchLog>>
    /\ UNCHANGED pageVars

\* Another page of the same origin shares localStorage and reads both keys
\* at any moment, also between the two statements of this page's logout.
OtherReader ==
    /\ seen' = [token |-> getItem(TOKEN_KEY), user |-> getItem(USER_KEY)]
    /\ UNCHANGED <<localStorage, logoutPc, session, ret, calls, fetchLog>>
    /\ UNCHANGED pageVars

NotSeen == [token |-> Undefined, user |-> Undefined]

-----------------------------------------------------------------------------
(* The request executor *)

\* The number of executor calls of one behaviour.
MaxCalls == 1

API_BASE_URL == <<"https://smarthubsec.com.ng/api">>

HeaderNames == {"Content-Type", "Authorization", "X-Request-Id"}
NoHeaders == [h \in HeaderNames |-> Undefined]

Options(method, body, headers) == [method |-> method, body |-> body, headers |-> headers]

\* const headers = {'Content-Type': 'application/json', ...options.headers}
DefaultHeaders == [NoHeaders EXCEPT !["Content-Type"] = Str(<<"application/json">>)]
\* A variant that spreads the caller's headers before the default.
SpreadHeaders_DefaultsLast(optHeaders) ==
    [h \in HeaderNames |->
        IF DefaultHeaders[h] # Undefined THEN DefaultHeaders[h] ELSE optHeaders[h]]
SpreadHeaders(optHeaders) ==
    [h \in HeaderNames |->
        IF optHeaders[h] # Undefined THEN optHeaders[h] ELSE DefaultHeaders[h]]

\* if (token) headers['Authorization'] = `Bearer ${token}`
\* A variant that tests the token against null only.
BearerHeaders_NotNull(headers, token) ==
    IF token.t # "null"
    THEN [headers EXCEPT !["Authorization"] = Str(<<"Bearer ">> \o token.s)]
    ELSE headers
BearerHeaders(headers, token) ==
    IF ToBoolean(token)
    THEN [headers EXCEPT !["Authorization"] = Str(<<"Bearer ">> \o token.s)]
    ELSE headers

\* The request apiRequest hands to fetch: `${API_BASE_URL}${endpoint}` with
\* {...options, headers}.
BuildRequest(endpoint, options, token) ==
    [method |-> options.method,
     url |-> API_BASE_URL \o endpoint,
     headers |-> BearerHeaders(SpreadHeaders(options.headers), token),
     body |-> options.body]

NoError == [name |-> "none", message |-> <<>>]
Error(name, message) == [name |-> name, message |-> message]
NoResponse == [status |-> 0, text |-> <<>>]

\* String(v) of a truthy value, as new Error(v) takes its message.
JSToString(v) ==
    CASE v.t = "string" -> v.s
      [] v.t = "number" -> NumberToString(v.n)
      [] v.t = "boolean" -> IF v.b THEN <<"true">> ELSE <<"false">>
      [] OTHER -> <<"[object Object]">>

FALLBACK_MESSAGE == <<"API request failed">>

\* data.message || 'API request failed'
ErrorMessage(data) ==
    IF ToBoolean(Get(data, "message")) THEN JSToString(Get(data, "message"))
    ELSE FALLBACK_MESSAGE

\* The test of line 26: !data.success
\* Variants that test success === false, and success === undefined.
Failed_StrictFalse(data) == Get(data, "success") = Bool(FALSE)
Failed_OnlyMissing(data) == Get(data, "success").t = "undefined"
Failed(data) == ~ToBoolean(Get(data, "success"))

\* What apiRequest does with the parsed body: reading a property of null
\* throws a TypeError, a falsy success throws Error(message), else data is
\* returned as it is.
Outcome(data) ==
    IF data.t = "null"
    THEN [status |-> "rejected", value |-> Undefined,
          error |-> Error("TypeError", <<"Cannot read properties of null">>)]
    ELSE IF Failed(data)
    THEN [status |-> "rejected", value |-> Undefined,
          error |-> Error("Error", ErrorMessage(data))]
    ELSE [status |-> "resolved", value |-> data, error |-> NoError]

\* An awaited promise that rejects: apiRequest has no try/catch, so what
\* fetch or response.json() threw is what apiRequest rejects with.
Rejection_Translated(err) ==
    [status |-> "rejected", value |-> Undefined,
     error |-> Error("Error", FALLBACK_MESSAGE)]
Rejection(err) == [status |-> "rejected", value |-> Undefined, error |-> err]

\* Every endpoint-group operation is `return apiRequest(...)`: its promise
\* settles as the executor's does, value or error untouched.
EndpointReturn_Unwrap(op, outcome) ==
    IF outcome.status = "resolved" /\ op # "apiRequest"
    THEN [outcome EXCEPT !.value = Get(outcome.value, "data")]
    ELSE outcome
EndpointReturn_Swallow(op, outcome) ==
    IF outcome.status = "rejected" /\ op # "apiRequest"
    THEN [status |-> "resolved", value |-> Null, error |-> NoError]
    ELSE outcome
EndpointReturn(op, outcome) == outcome

\* The call record once the operation's promise has settled.
Settle(call, thrown, outcome) ==
    LET out == EndpointReturn(call.op, outcome) IN
    [call EXCEPT !.status = out.status, !.value = out.value, !.error = out.error,
                 !.thrown = thrown]

\* The errors fetch rejects with.
TransportErrors ==
    {Error("TypeError", <<"Failed to fetch">>), Error("AbortError", <<"The operation was aborted">>)}
SyntaxError == Error("SyntaxError", <<"Unexpected token">>)

\* apiRequest up to its first await: read the token, build the headers, call
\* fetch.  op and args name the endpoint-group operation that made the call
\* and the arguments it was given.
StartCall(op, args, endpoint, options) ==
    /\ logoutPc = "idle"
    /\ LET request == BuildRequest(endpoint, options, getAuthToken) IN
       /\ calls' = Append(calls, [op |-> op, args |-> args, token |-> getAuthToken,
                                  headers |-> options.headers, request |-> request,
                                  status |-> "fetching", response |-> NoResponse,
                                  thrown |-> NoError,
                                  value |-> Undefined, error |-> NoError])
       /\ fetchLog' = Append(fetchLog, request)
    /\ ret' = NoRet
    /\ UNCHANGED <<localStorage, logoutPc, session, seen>>

\* A call made from outside the pages modelled here.
ApiRequest(op, args, endpoint, options) ==
    /\ StartCall(op, args, endpoint, options)
    /\ UNCHANGED pageVars

\* fetch rejects (the request never reached the server, or no response): the
\* await throws and apiRequest rejects with that error.
\* A variant that issues the request again when fetch fails.
FetchFails_Retry(c, err) ==
    /\ logoutPc = "idle"
    /\ c \in 1..Len(calls)
    /\ calls[c].status = "fetching"
    /\ fetchLog' = Append(fetchLog, calls[c].request)
    /\ ret' = NoRet
    /\ UNCHANGED <<localStorage, logoutPc, session, seen, calls>>
    /\ UNCHANGED pageVars
FetchFails(c, err) ==
    /\ logoutPc = "idle"
    /\ c \in 1..Len(calls)
    /\ calls[c].status = "fetching"
    /\ calls' = [calls EXCEPT ![c] = Settle(calls[c], err, Rejection(err))]
    /\ ret' = NoRet
    /\ UNCHANGED <<localStorage, logoutPc, session, seen, fetchLog>>
    /\ UNCHANGED pageVars

\* fetch resolves with a response of any status; apiRequest goes on to
\* await response.json().
\* A variant that delivers responses in the order the calls started.
FetchResponds_InOrder(c, status, text) ==
    /\ logoutPc = "idle"
    /\ c \in 1..Len(calls)
    /\ calls[c].status = "fetching"
    /\ \A d \in 1..(c - 1) : calls[d].status # "fetching"
    /\ calls' = [calls EXCEPT ![c].status = "parsing",
                              ![c].response = [status |-> status, text |-> text]]
    /\ ret' = NoRet
    /\ UNCHANGED <<localStorage, logoutPc, session, seen, fetchLog>>
    /\ UNCHANGED pageVars
FetchResponds(c, status, text) ==
    /\ logoutPc = "idle"
    /\ c \in 1..Len(calls)
    /\ calls[c].status = "fetching"
    /\ calls' = [calls EXCEPT ![c].status = "parsing",
                              ![c].response = [status |-> status, text |-> text]]
    /\ ret' = NoRet
    /\ UNCHANGED <<localStorage, logoutPc, session, seen, fetchLog>>
    /\ UNCHANGED pageVars

\* response.json() settles: a SyntaxError on a body that is not JSON, else
\* the success test on the parsed body.
\* A variant that rejects every response whose status is 400 or more.
Settled_StatusChecked(call) ==
    LET parsed == JSONparse(call.response.text) IN
    IF call.response.status >= 400
    THEN Settle(call, NoError, Rejection(Error("Error", <<"HTTP error">>)))
    ELSE IF ~parsed.ok THEN Settle(call, SyntaxError, Rejection(SyntaxError))
    ELSE Settle(call, NoError, Outcome(parsed.v))
\* A variant in which a body that is not JSON leaves the call pending.
Settled_Pending(call) ==
    LET parsed == JSONparse(call.response.text) IN
    IF ~parsed.ok THEN call
    ELSE Settle(call, NoError, Outcome(parsed.v))
Settled(call) ==
    LET parsed == JSONparse(call.response.text) IN
    IF ~parsed.ok THEN Settle(call, SyntaxError, Rejection(SyntaxError))
    ELSE Settle(call, NoError, Outcome(parsed.v))

\* A variant in which a resolved call persists a token.
JsonSettles_Persist(c) ==
    /\ logoutPc = "idle"
    /\ c \in 1..Len(calls)
    /\ calls[c].status = "parsing"
    /\ calls' = [calls EXCEPT ![c] = Settled(calls[c])]
    /\ localStorage' = IF Settled(calls[c]).status = "resolved"
                       THEN setItem(localStorage, TOKEN_KEY, <<"tok-new">>)
                       ELSE localStorage
    /\ ret' = NoRet
    /\ UNCHANGED <<logoutPc, session, seen, fetchLog>>
    /\ UNCHANGED pageVars

JsonSettles(c) ==
    /\ logoutPc = "idle"
    /\ c \in 1..Len(calls)
    /\ calls[c].status = "parsing"
    /\ calls' = [calls EXCEPT ![c] = Settled(calls[c])]
    /\ ret' = NoRet
    /\ UNCHANGED <<localStorage, logoutPc, session, seen, fetchLog>>
    /\ UNCHANGED pageVars

-----------------------------------------------------------------------------
(* URLSearchParams *)

\* application/x-www-form-urlencoded: a space becomes "+", every other
\* character outside letters, digits and *-._ is percent-encoded.
FormEncodeChar(a) ==
    CASE a = " " -> "+"
      [] a = "&" -> "%26"
      [] a = "=" -> "%3D"
      [] a = "?" -> "%3F"
      [] a = "#" -> "%23"
      [] a = "+" -> "%2B"
      [] a = "%" -> "%25"
      [] a = "/" -> "%2F"
      [] OTHER -> a

FormEncode(s) == [i \in 1..Len(s) |-> FormEncodeChar(s[i])]

\* URLSearchParams.append and toString on a list of [k, v] pairs.
ParamsAppend(list, k, v) == Append(list, KeyValue(k, v))

RECURSIVE ParamsToString(_)
ParamsToString(list) ==
    IF list = <<>> THEN <<>>
    ELSE FormEncode(Head(list).k) \o <<"=">> \o FormEncode(Head(list).v)
         \o (IF Tail(list) = <<>> THEN <<>> ELSE <<"&">> \o ParamsToString(Tail(list)))

-----------------------------------------------------------------------------
(* The endpoint groups *)

\* params?.key
Optional(params, k) == IF params.t = "undefined" THEN Undefined ELSE Get(params, k)

\* The five conditional appends of products.list, in source order.
ListCategory(q, params) ==
    IF ToBoolean(Optional(params, "category"))
    THEN ParamsAppend(q, <<"category">>, Optional(params, "category").s) ELSE q
ListFeatured(q, params) ==
    IF ToBoolean(Optional(params, "featured"))
    THEN ParamsAppend(q, <<"featured">>, <<"1">>) ELSE q
ListSearch(q, params) ==
    IF ToBoolean(Optional(params, "search"))
    THEN ParamsAppend(q, <<"search">>, Optional(params, "search").s) ELSE q
\* A variant that tests limit against undefined.
ListLimit_Defined(q, params) ==
    IF Optional(params, "limit").t # "undefined"
    THEN ParamsAppend(q, <<"limit">>, NumberToString(Optional(params, "limit").n)) ELSE q
ListLimit(q, params) ==
    IF ToBoolean(Optional(params, "limit"))
    THEN ParamsAppend(q, <<"limit">>, NumberToString(Optional(params, "limit").n)) ELSE q
ListOffset(q, params) ==
    IF ToBoolean(Optional(params, "offset"))
    THEN ParamsAppend(q, <<"offset">>, NumberToString(Optional(params, "offset").n)) ELSE q

\* A variant that appends offset before limit.
ListQueryParams_OffsetFirst(params) ==
    ListLimit(ListOffset(ListSearch(ListFeatured(ListCategory(<<>>, params),
                                                 params), params), params), params)
ListQueryParams(params) ==
    ListOffset(ListLimit(ListSearch(ListFeatured(ListCategory(<<>>, params),
                                                 params), params), params), params)

\* `/products/list.php${queryString ? `?${queryString}` : ''}`
ListEndpoint(params) ==
    LET queryString == ParamsToString(ListQueryParams(params)) IN
    <<"/products/list.php">> \o (IF queryString # <<>> THEN <<"?">> \o queryString ELSE <<>>)

\* `/products/details.php?slug=${slug}` and `/orders/details.php?id=${orderId}`
SlugEndpoint(slug) == <<"/products/details.php", "?", "slug", "=">> \o slug
OrderEndpoint(orderId) == <<"/orders/details.php", "?", "id", "=">> \o orderId

JsonBody(data) == Str(JSONstringify(data))

AuthRegister(data) ==
    ApiRequest("auth.register", data, <<"/auth/register.php">>,
               Options("POST", JsonBody(data), NoHeaders))

\* A variant of login that posts to the path of register.
AuthLogin_RegisterPath(data) ==
    ApiRequest("auth.login", data, <<"/auth/register.php">>,
               Options("POST", JsonBody(data), NoHeaders))
AuthLogin(data) ==
    ApiRequest("auth.login", data, <<"/auth/login.php">>,
               Options("POST", JsonBody(data), NoHeaders))

ProductsList(params) ==
    ApiRequest("products.list", params, ListEndpoint(params), Options("GET", Undefined, NoHeaders))

ProductsGetBySlug(slug) ==
    ApiRequest("products.getBySlug", Str(slug), SlugEndpoint(slug), Options("GET", Undefined, NoHeaders))

\* A variant without the default of the quantity parameter.
CartAddData_NoDefault(productId, quantity) ==
    Obj(<<Prop("product_id", productId), Prop("quantity", quantity)>>)
\* quantity: number = 1
CartAddData(productId, quantity) ==
    Obj(<<Prop("product_id", productId),
          Prop("quantity", IF quantity.t = "undefined" THEN Num(1) ELSE quantity)>>)

CartAdd(productId, quantity) ==
    ApiRequest("cart.add", Obj(<<Prop("productId", productId), Prop("quantity", quantity)>>),
               <<"/cart/add.php">>,
               Options("POST", JsonBody(CartAddData(productId, quantity)), NoHeaders))

CartList ==
    ApiRequest("cart.list", Undefined, <<"/cart/list.php">>, Options("GET", Undefined, NoHeaders))

CartUpdate(itemId, quantity) ==
    ApiRequest("cart.update", Obj(<<Prop("itemId", itemId), Prop("quantity", quantity)>>),
               <<"/cart/update.php">>,
               Options("PUT", JsonBody(Obj(<<Prop("item_id", itemId),
                                             Prop("quantity", quantity)>>)), NoHeaders))

CartRemove(itemId) ==
    ApiRequest("cart.remove", itemId, <<"/cart/remove.php">>,
               Options("DELETE", JsonBody(Obj(<<Prop("item_id", itemId)>>)), NoHeaders))

\* orders.create as a page calls it, the page's own state changing in the
\* same step.
OrdersCreateCall(orderData) ==
    StartCall("orders.create", orderData, <<"/orders/create.php">>,
              Options("POST", JsonBody(orderData), NoHeaders))
OrdersCreate(orderData) ==
    /\ OrdersCreateCall(orderData)
    /\ UNCHANGED pageVars

OrdersList ==
    ApiRequest("orders.list", Undefined, <<"/orders/list.php">>, Options("GET", Undefined, NoHeaders))

OrdersGetById(orderId) ==
    ApiRequest("orders.getById", Str(orderId), OrderEndpoint(orderId), Options("GET", Undefined, NoHeaders))

-----------------------------------------------------------------------------
(* The StaffManagement page (src/src/pages/admin/CustomerManagement.tsx) *)

\* toast.error(message)
ErrorToast(message) == [kind |-> "error", message |-> message]

\* The component's state when it mounts, with the toasts the last handler
\* showed and the name and arguments of that handler.
NoHandler == [op |-> "none", userId |-> "", role |-> "", confirmed |-> FALSE]
StaffMounted ==
    [ staff |-> <<>>, loading |-> TRUE, dialogOpen |-> FALSE,
      newStaffEmail |-> "", newStaffRole |-> "product_staff",
      last |-> NoHandler, shown |-> <<>> ]

\* A handler starts: its toasts are collected from here on.
Handling(st, op, userId, role, confirmed) ==
    [st EXCEPT !.last = [op |-> op, userId |-> userId, role |-> role,
                         confirmed |-> confirmed],
               !.shown = <<>>]

\* A variant of fetchStaff without the finally block.
fetchStaff_NoFinally(st) ==
    [st EXCEPT !.staff = <<>>,
               !.shown = Append(@, ErrorToast("Staff management endpoints not yet implemented"))]
\* fetchStaff: setStaff([]), the toast, and setLoading(false) in finally.
fetchStaff(st) ==
    [st EXCEPT !.staff = <<>>,
               !.shown = Append(@, ErrorToast("Staff management endpoints not yet implemented")),
               !.loading = FALSE]

\* useEffect(() => { fetchStaff(); }, [])
FetchStaff ==
    /\ staff' = fetchStaff(Handling(staff, "fetchStaff", "", "", FALSE))
    /\ UNCHANGED <<storeVars, netVars, checkout, analytics>>

handleAddStaff(st) ==
    fetchStaff([st EXCEPT !.shown = Append(@, ErrorToast("Add staff endpoint not yet implemented")),
                          !.dialogOpen = FALSE,
                          !.newStaffEmail = ""])
HandleAddStaff ==
    /\ staff' = handleAddStaff(Handling(staff, "handleAddStaff", "", "", FALSE))
    /\ UNCHANGED <<storeVars, netVars, checkout, analytics>>

handleUpdateRole(st, userId, newRole) ==
    fetchStaff([st EXCEPT !.shown = Append(@, ErrorToast("Update role endpoint not yet implemented"))])
HandleUpdateRole(userId, newRole) ==
    /\ staff' = handleUpdateRole(Handling(staff, "handleUpdateRole", userId, newRole, FALSE),
                                 userId, newRole)
    /\ UNCHANGED <<storeVars, netVars, checkout, analytics>>

\* confirmed is what confirm(...) returned.
handleRemoveStaff(st, userId, confirmed) ==
    IF ~confirmed THEN st
    ELSE fetchStaff([st EXCEPT !.shown = Append(@, ErrorToast("Remove staff endpoint not yet implemented"))])
HandleRemoveStaff(userId, confirmed) ==
    /\ staff' = handleRemoveStaff(Handling(staff, "handleRemoveStaff", userId, "", confirmed),
                                  userId, confirmed)
    /\ UNCHANGED <<storeVars, netVars, checkout, analytics>>

\* The dialog and its two fields.
SetDialogOpen(open) ==
    /\ staff' = [staff EXCEPT !.dialogOpen = open]
    /\ UNCHANGED <<storeVars, netVars, checkout, analytics>>
SetNewStaffEmail(email) ==
    /\ staff' = [staff EXCEPT !.newStaffEmail = email]
    /\ UNCHANGED <<storeVars, netVars, checkout, analytics>>
SetNewStaffRole(role) ==
    /\ staff' = [staff EXCEPT !.newStaffRole = role]
    /\ UNCHANGED <<storeVars, netVars, checkout, analytics>>

-----------------------------------------------------------------------------
(* The Checkout page (src/src/pages/Checkout.tsx) *)

\* What a handler does that the rest of the page can observe, in the order
\* it does it: a toast, a navigation, a call it starts, a change of loading.
Effect(kind, title, description, path, flag) ==
    [kind |-> kind, title |-> title, description |-> description, path |-> path,
     flag |-> flag]
Toast(title, description, variant) == Effect("toast", title, description, <<variant>>, FALSE)
Navigate(path) == Effect("navigate", "", <<>>, path, FALSE)
Called(operation) == Effect("call", operation, <<>>, <<>>, FALSE)
SetLoading(flag) == Effect("setLoading", "", <<>>, <<>>, flag)

ShippingInfo(address, city, postalCode, country) ==
    [fullName |-> <<>>, address |-> address, city |-> city, postalCode |-> postalCode,
     country |-> country, phone |-> <<>>]

\* Amounts of money are exact: subtotal and shipping are counted in cents,
\* tax and total in hundredths of a cent (8% of a whole number of cents is a
\* whole number of hundredths).
FREE_SHIPPING_OVER == 5000
SHIPPING_FEE == 999
TAX_PERCENT == 8

\* A variant in which a subtotal of exactly 50 ships free.
shipping_FreeFrom(subtotal) == IF subtotal >= FREE_SHIPPING_OVER THEN 0 ELSE SHIPPING_FEE
\* const shipping = subtotal > 50 ? 0 : 9.99 (cents)
shipping(subtotal) == IF subtotal > FREE_SHIPPING_OVER THEN 0 ELSE SHIPPING_FEE
\* const tax = subtotal * 0.08 (hundredths of a cent)
tax(subtotal) == subtotal * TAX_PERCENT
\* const total = subtotal + shipping + tax (hundredths of a cent)
total(subtotal) == 100 * subtotal + 100 * shipping(subtotal) + tax(subtotal)

\* x.toFixed(2) of an amount in hundredths of a cent: the nearest whole
\* number of cents, the larger one of two equally near.
toFixed2(x) == (x + 50) \div 100

\* The order summary as rendered (lines 249-270, 278): the four amounts
\* and the four texts shown for them, in cents, 'Free' for a shipping of 0.
OrderSummary(subtotal) ==
    [ shipping |-> shipping(subtotal), tax |-> tax(subtotal), total |-> total(subtotal),
      shown |-> [ subtotal |-> toFixed2(100 * subtotal),
                  free |-> shipping(subtotal) = 0,
                  shipping |-> toFixed2(100 * shipping(subtotal)),
                  tax |-> toFixed2(tax(subtotal)),
                  total |-> toFixed2(total(subtotal)) ] ]

\* The component's state when it mounts, with what useAuth and useCart
\* currently give it, the summary rendered from the subtotal, where handleSubmit is suspended ("idle" when it is not
\* running), the call the running submission made, the state of the promise
\* its clearCart() returned ("none" before the call), and the effects of the
\* last submission.
CheckoutMounted ==
    [ loading |-> FALSE,
      shippingInfo |-> ShippingInfo(<<>>, <<>>, <<>>, <<"United States">>),
      paymentMethod |-> <<"card">>,
      user |-> Null, cartItems |-> <<>>, subtotal |-> 0, summary |-> OrderSummary(0),
      pc |-> "idle", call |-> 0, clearCart |-> "none", effects |-> <<>> ]

\* The argument of orders.create (lines 60-67).
CheckoutOrderData(st) ==
    Obj(<<Prop("shipping_address", Str(st.shippingInfo.address)),
          Prop("shipping_city", Str(st.shippingInfo.city)),
          Prop("shipping_postal_code", Str(st.shippingInfo.postalCode)),
          Prop("shipping_country", Str(st.shippingInfo.country)),
          Prop("payment_method", Str(st.paymentMethod)),
          Prop("notes", Str(<<>>))>>)

\* catch (error): the 'Error' toast with error.message or the fallback.
CheckoutCatch(st, error) ==
    [st EXCEPT !.effects =
        Append(@, Toast("Error",
                        IF error.message # <<>> THEN error.message
                        ELSE <<"Failed to create order. Please try again.">>,
                        "destructive"))]

\* finally: setLoading(false); the handler returns.
\* A variant whose handler returns without setLoading(false).
CheckoutFinally_KeepsLoading(st) == [st EXCEPT !.pc = "idle"]
CheckoutFinally(st) ==
    [st EXCEPT !.loading = FALSE, !.pc = "idle", !.effects = Append(@, SetLoading(FALSE))]

\* `/receipt/${response.data.order.id}`: reading a property of undefined or
\* null throws a TypeError; an id of any other value is converted to a string.
ReceiptPath(response) ==
    LET data == Get(response, "data") IN
    IF data.t \in {"undefined", "null"}
    THEN [ok |-> FALSE, path |-> <<>>,
          error |-> Error("TypeError", <<"Cannot read properties of undefined (reading 'order')">>)]
    ELSE IF Get(data, "order").t \in {"undefined", "null"}
    THEN [ok |-> FALSE, path |-> <<>>,
          error |-> Error("TypeError", <<"Cannot read properties of undefined (reading 'id')">>)]
    ELSE [ok |-> TRUE,
          path |-> <<"/receipt/">> \o
                   (IF Get(Get(data, "order"), "id").t = "undefined" THEN <<"undefined">>
                    ELSE IF Get(Get(data, "order"), "id").t = "null" THEN <<"null">>
                    ELSE JSToString(Get(Get(data, "order"), "id"))),
          error |-> NoError]

\* A variant of handleSubmit without the test of the cart.
HandleSubmit_NoCartCheck ==
    /\ IF ~ToBoolean(checkout.user)
       THEN /\ checkout' =
                 [checkout EXCEPT !.clearCart = "none", !.effects =
                     <<Toast("Please sign in", <<"You need to be signed in to place an order">>,
                             "destructive"),
                       Navigate(<<"/auth">>)>>]
            /\ UNCHANGED <<storeVars, netVars>>
       ELSE /\ OrdersCreateCall(CheckoutOrderData(checkout))
            /\ checkout' =
                 [checkout EXCEPT !.loading = TRUE, !.pc = "creating",
                                  !.call = Len(calls) + 1, !.clearCart = "none",
                                  !.effects = <<SetLoading(TRUE), Called("orders.create")>>]
    /\ UNCHANGED <<staff, analytics>>
\* handleSubmit up to its first await or its return: the two early returns,
\* else setLoading(true) and the call of orders.create.
HandleSubmit ==
    /\ IF ~ToBoolean(checkout.user)
       THEN /\ checkout' =
                 [checkout EXCEPT !.clearCart = "none", !.effects =
                     <<Toast("Please sign in", <<"You need to be signed in to place an order">>,
                             "destructive"),
                       Navigate(<<"/auth">>)>>]
            /\ UNCHANGED <<storeVars, netVars>>
       ELSE IF Len(checkout.cartItems) = 0
       THEN /\ checkout' =
                 [checkout EXCEPT !.clearCart = "none", !.effects =
                     <<Toast("Cart is empty", <<"Please add items to your cart before checkout">>,
                             "destructive")>>]
            /\ UNCHANGED <<storeVars, netVars>>
       ELSE /\ OrdersCreateCall(CheckoutOrderData(checkout))
            /\ checkout' =
                 [checkout EXCEPT !.loading = TRUE, !.pc = "creating",
                                  !.call = Len(calls) + 1, !.clearCart = "none",
                                  !.effects = <<SetLoading(TRUE), Called("orders.create")>>]
    /\ UNCHANGED <<staff, analytics>>

\* handleSubmit resumes after `await orders.create(...)`: it calls clearCart
\* when the promise resolved, and goes to catch and finally when it rejected.
\* A variant that calls clearCart however orders.create settled.
AwaitOrdersCreate_ClearsAlways ==
    /\ checkout.pc = "creating"
    /\ calls[checkout.call].status \in {"resolved", "rejected"}
    /\ checkout' =
         [checkout EXCEPT !.pc = "clearing", !.clearCart = "pending",
                          !.effects = Append(@, Called("clearCart"))]
    /\ UNCHANGED <<storeVars, netVars, staff, analytics>>
AwaitOrdersCreate ==
    /\ checkout.pc = "creating"
    /\ calls[checkout.call].status \in {"resolved", "rejected"}
    /\ checkout' =
         IF calls[checkout.call].status = "resolved"
         THEN [checkout EXCEPT !.pc = "clearing", !.clearCart = "pending",
                               !.effects = Append(@, Called("clearCart"))]
         ELSE CheckoutFinally(CheckoutCatch(checkout, calls[checkout.call].error))
    /\ UNCHANGED <<storeVars, netVars, staff, analytics>>

\* clearCart() resolves, the cart being empty from then on, and handleSubmit
\* resumes: the 'Order placed!' toast, then the navigation to the receipt,
\* whose path may throw.
ClearCartResolves ==
    /\ checkout.pc = "clearing"
    /\ LET receipt == ReceiptPath(calls[checkout.call].value)
           placed == [checkout EXCEPT
                         !.cartItems = <<>>, !.clearCart = "resolved",
                         !.effects = Append(@, Toast("Order placed!",
                                                     <<"Your order has been confirmed.">>,
                                                     "default"))]
       IN checkout' =
            IF receipt.ok
            THEN CheckoutFinally([placed EXCEPT !.effects = Append(@, Navigate(receipt.path))])
            ELSE CheckoutFinally(CheckoutCatch(placed, receipt.error))
    /\ UNCHANGED <<storeVars, netVars, staff, analytics>>

\* clearCart() rejects, the cart being as it was: catch and finally.
ClearCartRejects(error) ==
    /\ checkout.pc = "clearing"
    /\ checkout' = CheckoutFinally(CheckoutCatch([checkout EXCEPT !.clearCart = "rejected"], error))
    /\ UNCHANGED <<storeVars, netVars, staff, analytics>>

\* What the hooks and the form fields give the component.
UseAuth(user) ==
    /\ checkout' = [checkout EXCEPT !.user = user]
    /\ UNCHANGED <<storeVars, netVars, staff, analytics>>
UseCart(cartItems) ==
    /\ checkout' = [checkout EXCEPT !.cartItems = cartItems]
    /\ UNCHANGED <<storeVars, netVars, staff, analytics>>
\* useCart gives a new subtotal and the component renders again.
UseSubtotal(subtotal) ==
    /\ checkout' = [checkout EXCEPT !.subtotal = subtotal, !.summary = OrderSummary(subtotal)]
    /\ UNCHANGED <<storeVars, netVars, staff, analytics>>
SetShippingInfo(info) ==
    /\ checkout' = [checkout EXCEPT !.shippingInfo = info]
    /\ UNCHANGED <<storeVars, netVars, staff, analytics>>
SetPaymentMethod(method) ==
    /\ checkout' = [checkout EXCEPT !.paymentMethod = method]
    /\ UNCHANGED <<storeVars, netVars, staff, analytics>>

-----------------------------------------------------------------------------
(* The Analytics page (src/src/pages/admin/Analytics.tsx) *)

\* An array: its elements in order.  Arrays occur only in the values list
\* requests resolve with; the JSON text of such a response is not modelled.
Arr(items) == JSValue("array", FALSE, 0, <<>>, items)

\* orders.list and products.list as a page calls them.
OrdersListCall ==
    StartCall("orders.list", Undefined, <<"/orders/list.php">>, Options("GET", Undefined, NoHeaders))
ProductsListCall(params) ==
    StartCall("products.list", params, ListEndpoint(params), Options("GET", Undefined, NoHeaders))

\* A list request is answered with a success envelope whose body parsed to
\* data: apiRequest resolves with it.
ListSettles(c, data) ==
    /\ c \in 1..Len(calls)
    /\ calls[c].status = "fetching"
    /\ calls[c].op \in {"orders.list", "products.list"}
    /\ calls' = [calls EXCEPT ![c] = Settle(calls[c], NoError, Outcome(data))]
    /\ ret' = NoRet
    /\ UNCHANGED <<localStorage, logoutPc, session, seen, fetchLog>>
    /\ UNCHANGED pageVars

\* Number(v) of a number or of a string of digits.
ToNumber(v) == IF v.t = "number" THEN v.n ELSE ParseNumber(v.s, 0).v.n

\* a / b; 0 is 0 / 1.
Quotient(a, b) == [num |-> a, den |-> b]

\* The component's state when it mounts, with where fetchAnalytics is
\* suspended ("idle" when it is not running), the call it waits for, the
\* order list it holds, and how its last run ended.
ZeroStats ==
    [ totalRevenue |-> 0, totalOrders |-> 0, totalProducts |-> 0, totalCustomers |-> 0,
      avgOrderValue |-> Quotient(0, 1) ]
AnalyticsMounted ==
    [ loading |-> TRUE, stats |-> ZeroStats, dailyData |-> <<>>, topProducts |-> <<>>,
      pc |-> "idle", call |-> 0, ordersCall |-> 0, ordersList |-> <<>>, last |-> "none" ]

\* ordersList.reduce((sum, o) => sum + Number(o.total), 0)
RECURSIVE TotalRevenue(_)
TotalRevenue(ordersList) ==
    IF ordersList = <<>> THEN 0
    ELSE TotalRevenue(SubSeq(ordersList, 1, Len(ordersList) - 1))
         + ToNumber(Get(ordersList[Len(ordersList)], "total"))

\* new Set(ordersList.map(o => o.user_id)).size
UniqueCustomers(ordersList) ==
    Cardinality({Get(ordersList[i], "user_id") : i \in 1..Len(ordersList)})

\* A variant of the statistics whose totalOrders counts the customers.
Stats_OrdersAreCustomers(ordersList, productsList) ==
    [ totalRevenue |-> TotalRevenue(ordersList),
      totalOrders |-> UniqueCustomers(ordersList),
      totalProducts |-> Len(productsList),
      totalCustomers |-> UniqueCustomers(ordersList),
      avgOrderValue |-> IF Len(ordersList) > 0
                        THEN Quotient(TotalRevenue(ordersList), Len(ordersList))
                        ELSE Quotient(0, 1) ]
\* The argument of setStats (lines 56-62).
Stats(ordersList, productsList) ==
    [ totalRevenue |-> TotalRevenue(ordersList),
      totalOrders |-> Len(ordersList),
      totalProducts |-> Len(productsList),
      totalCustomers |-> UniqueCustomers(ordersList),
      avgOrderValue |-> IF Len(ordersList) > 0
                        THEN Quotient(TotalRevenue(ordersList), Len(ordersList))
                        ELSE Quotient(0, 1) ]

\* new Date(created_at).toLocaleDateString('en-US', {month: 'short', day:
\* 'numeric'}) of a string <<year, "-", month, "-", day>>: the month's short
\* name and the day, without the year; 'Invalid Date' for any other string.
MonthNumbers == <<"01", "02", "03", "04", "05", "06", "07", "08", "09", "10", "11", "12">>
MonthNames ==
    <<"Jan", "Feb", "Mar", "Apr", "May", "Jun", "Jul", "Aug", "Sep", "Oct", "Nov", "Dec">>
DateLabel(created_at) ==
    IF /\ created_at.t = "string"
       /\ Len(created_at.s) = 5
       /\ created_at.s[2] = "-"
       /\ created_at.s[4] = "-"
       /\ \E m \in 1..12 : MonthNumbers[m] = created_at.s[3]
    THEN <<MonthNames[CHOOSE m \in 1..12 : MonthNumbers[m] = created_at.s[3]],
           " ", created_at.s[5]>>
    ELSE <<"Invalid Date">>

\* revenueByDate after the forEach (lines 65-73), as Object.entries lists it:
\* one entry per date, in the order the dates first occur.
RECURSIVE RevenueByDate(_)
RevenueByDate(ordersList) ==
    IF ordersList = <<>> THEN <<>>
    ELSE LET before == RevenueByDate(SubSeq(ordersList, 1, Len(ordersList) - 1))
             order == ordersList[Len(ordersList)]
             date == DateLabel(Get(order, "created_at"))
         IN IF \E i \in 1..Len(before) : before[i].date = date
            THEN [i \in 1..Len(before) |->
                    IF before[i].date = date
                    THEN [before[i] EXCEPT !.revenue = @ + ToNumber(Get(order, "total")),
                                           !.orders = @ + 1]
                    ELSE before[i]]
            ELSE Append(before, [date |-> date, revenue |-> ToNumber(Get(order, "total")),
                                 orders |-> 1])

\* p.review_count || 0
ReviewCount(p) == IF ToBoolean(Get(p, "review_count")) THEN Get(p, "review_count").n ELSE 0

\* productsList.sort((a, b) => (b.review_count || 0) - (a.review_count || 0)):
\* descending, products of equal count in the order they had.
RECURSIVE SortByReviews(_)
SortByReviews(productsList) ==
    IF productsList = <<>> THEN <<>>
    ELSE LET sorted == SortByReviews(SubSeq(productsList, 1, Len(productsList) - 1))
             p == productsList[Len(productsList)]
             k == Cardinality({i \in 1..Len(sorted) : ReviewCount(sorted[i]) >= ReviewCount(p)})
         IN SubSeq(sorted, 1, k) \o <<p>> \o SubSeq(sorted, k + 1, Len(sorted))

\* .slice(0, 5) and the map of lines 88-91; a name's atoms are its
\* characters.  Reading the length of a name that is undefined or null throws.
TopFive(productsList) ==
    SubSeq(SortByReviews(productsList), 1,
           IF Len(productsList) < 5 THEN Len(productsList) ELSE 5)
TopProductsThrow(productsList) ==
    \E i \in 1..Len(TopFive(productsList)) :
        Get(TopFive(productsList)[i], "name").t \in {"undefined", "null"}
TopProducts(productsList) ==
    [i \in 1..Len(TopFive(productsList)) |->
        LET p == TopFive(productsList)[i] IN
        [ name |-> IF Len(Get(p, "name").s) > 20
                   THEN SubSeq(Get(p, "name").s, 1, 20) \o <<"...">>
                   ELSE Get(p, "name").s,
          quantity |-> ReviewCount(p) ]]

\* catch (console.error) and finally (setLoading(false)).
AnalyticsFailed(st) == [st EXCEPT !.loading = FALSE, !.pc = "idle", !.last = "failed"]

\* response.data.orders || [] and response.data.products || []: reading a
\* property of an undefined or null data throws.
DataThrows(response) == Get(response, "data").t \in {"undefined", "null"}
ListOf(response, name) ==
    IF ToBoolean(Get(Get(response, "data"), name)) THEN Get(Get(response, "data"), name).o
    ELSE <<>>

\* fetchAnalytics up to `await orders.list()`.
FetchAnalytics ==
    /\ analytics.pc = "idle"
    /\ OrdersListCall
    /\ analytics' = [analytics EXCEPT !.pc = "orders", !.call = Len(calls) + 1,
                                      !.last = "running"]
    /\ UNCHANGED <<staff, checkout>>

\* fetchAnalytics resumes after `await orders.list()`: it takes the order
\* list and calls products.list, or goes to catch and finally.
AwaitOrdersList ==
    /\ analytics.pc = "orders"
    /\ calls[analytics.call].status \in {"resolved", "rejected"}
    /\ IF calls[analytics.call].status = "rejected" \/ DataThrows(calls[analytics.call].value)
       THEN /\ analytics' = AnalyticsFailed(analytics)
            /\ UNCHANGED <<storeVars, netVars>>
       ELSE /\ ProductsListCall(Undefined)
            /\ analytics' =
                 [analytics EXCEPT !.pc = "products",
                                   !.ordersCall = analytics.call,
                                   !.call = Len(calls) + 1,
                                   !.ordersList = ListOf(calls[analytics.call].value, "orders")]
    /\ UNCHANGED <<staff, checkout>>

\* fetchAnalytics resumes after `await productsApi.list()`: setStats,
\* setDailyData, setTopProducts, or catch; and finally.
AwaitProductsList ==
    /\ analytics.pc = "products"
    /\ calls[analytics.call].status \in {"resolved", "rejected"}
    /\ analytics' =
         IF calls[analytics.call].status = "rejected" \/ DataThrows(calls[analytics.call].value)
         THEN AnalyticsFailed(analytics)
         ELSE LET productsList == ListOf(calls[analytics.call].value, "products")
                  counted ==
                      [analytics EXCEPT
                          !.stats = Stats(analytics.ordersList, productsList),
                          !.dailyData = RevenueByDate(analytics.ordersList),
                          !.loading = FALSE, !.pc = "idle", !.last = "fetched"]
              IN IF TopProductsThrow(productsList) THEN counted
                 ELSE [counted EXCEPT !.topProducts = TopProducts(productsList)]
    /\ UNCHANGED <<storeVars, netVars, staff, checkout>>

-----------------------------------------------------------------------------
(* Inputs *)

Envelope(success, message, data) ==
    Obj(<<Prop("success", success), Prop("message", message), Prop("data", data)>>)

OrderPayload == Obj(<<Prop("order", Obj(<<Prop("id", Str(<<"ord-1">>))>>))>>)

\* The bodies a backend may answer with, well-formed envelopes or not.
SuccessValues ==
    {Undefined, Null, Bool(FALSE), Bool(TRUE), Num(0), Num(1), Str(<<>>), Str(<<"no">>)}
MessageValues == {Undefined, Null, Str(<<>>), Str(<<"Cart is empty">>), Num(404)}
DataValues == {Undefined, OrderPayload}
MalformedText == <<"<html>", "Bad Gateway">>
TruncatedText == <<"{", "\"", "success", "\"", ":">>
ResponseTexts ==
    {JSONstringify(Envelope(s, m, d)) :
        s \in SuccessValues, m \in MessageValues, d \in DataValues}
    \cup {<<"null">>, <<"7">>, <<"true">>, <<>>, MalformedText, TruncatedText}

\* The few bodies the session-and-endpoints specification answers with.
OkText == JSONstringify(Envelope(Bool(TRUE), Str(<<"Added">>), OrderPayload))
FailText == JSONstringify(Envelope(Bool(FALSE), Str(<<"Cart is empty">>), Undefined))
BasicTexts == {OkText, FailText, MalformedText}

HttpStatuses == {200, 500}

RegisterData ==
    Obj(<<Prop("email", Str(<<"ann@shop.io">>)), Prop("password", Str(<<"pw">>)),
          Prop("full_name", Str(<<"Ann">>))>>)
LoginData ==
    Obj(<<Prop("email", Str(<<"ann@shop.io">>)), Prop("password", Str(<<"pw">>))>>)
OrderData ==
    Obj(<<Prop("shipping_address", Str(<<"1 Main St">>)),
          Prop("shipping_city", Str(<<"Lagos">>)),
          Prop("shipping_postal_code", Str(<<"100001">>)),
          Prop("shipping_country", Str(<<"Nigeria">>)),
          Prop("payment_method", Str(<<"card">>)),
          Prop("notes", Str(<<>>))>>)
FeaturedOnly == Obj(<<Prop("featured", Bool(TRUE))>>)

\* The headers a caller of apiRequest may pass in options.headers.
CallerHeaders ==
    { [h \in HeaderNames |->
          CASE h = "Content-Type" -> ct
            [] h = "Authorization" -> au
            [] OTHER -> id] :
      ct \in {Undefined, Str(<<"text/plain">>)},
      au \in {Undefined, Str(<<"Basic ", "abc">>)},
      id \in {Undefined, Str(<<"req-1">>)} }

\* The filters of products.list: every choice of supplied keys, in every
\* insertion order, with a falsy and a truthy value for each.
FilterKeys == {"category", "featured", "search", "limit", "offset"}
FilterValues(key) ==
    CASE key = "category" -> {Str(<<>>), Str(<<"phones">>)}
      [] key = "featured" -> {Bool(FALSE), Bool(TRUE)}
      [] key = "search" -> {Str(<<>>), Str(<<"usb", " ", "c", "&", "d">>)}
      [] key = "limit" -> {Num(0), Num(10)}
      [] OTHER -> {Num(0), Num(20)}
KeyOrders ==
    { order \in UNION {[1..n -> FilterKeys] : n \in 0..Cardinality(FilterKeys)} :
        \A i, j \in DOMAIN order : i # j => order[i] # order[j] }
FilterChoices ==
    { [key \in FilterKeys |-> IF key = "category" THEN c
                              ELSE IF key = "featured" THEN f
                              ELSE IF key = "search" THEN q
                              ELSE IF key = "limit" THEN l ELSE o] :
      c \in FilterValues("category"), f \in FilterValues("featured"),
      q \in FilterValues("search"), l \in FilterValues("limit"),
      o \in FilterValues("offset") }
ListParams ==
    {Undefined} \cup
    { Obj([i \in DOMAIN order |-> Prop(order[i], choice[order[i]])]) :
        order \in KeyOrders, choice \in FilterChoices }

-----------------------------------------------------------------------------
(* Specifications *)

Init ==
    /\ localStorage = EmptyStore
    /\ logoutPc = "idle"
    /\ session = NoSession
    /\ seen = NotSeen
    /\ ret = NoRet
    /\ calls = <<>>
    /\ fetchLog = <<>>
    /\ staff = StaffMounted
    /\ checkout = CheckoutMounted
    /\ analytics = AnalyticsMounted

\* The session store and the endpoint groups together.
Next ==
    \/ \E token \in {<<>>, <<"tok-abc">>} : SetSession(token, CHOOSE u \in Users : TRUE)
    \/ LogoutRemoveToken
    \/ LogoutRemoveUser
    \/ Len(calls) < MaxCalls /\ AuthRegister(RegisterData)
    \/ Len(calls) < MaxCalls /\ AuthLogin(LoginData)
    \/ Len(calls) < MaxCalls /\ \E params \in {Undefined, FeaturedOnly} : ProductsList(params)
    \/ Len(calls) < MaxCalls /\ ProductsGetBySlug(<<"usb-hub">>)
    \/ /\ Len(calls) < MaxCalls
       /\ \E quantity \in {Undefined, Num(2)} : CartAdd(Str(<<"prod-123">>), quantity)
    \/ Len(calls) < MaxCalls /\ CartList
    \/ Len(calls) < MaxCalls /\ CartUpdate(Str(<<"item-9">>), Num(3))
    \/ Len(calls) < MaxCalls /\ CartRemove(Str(<<"item-9">>))
    \/ Len(calls) < MaxCalls /\ OrdersCreate(OrderData)
    \/ Len(calls) < MaxCalls /\ OrdersList
    \/ Len(calls) < MaxCalls /\ OrdersGetById(<<"ord-1">>)
    \/ \E c \in 1..MaxCalls, err \in TransportErrors : FetchFails(c, err)
    \/ \E c \in 1..MaxCalls, text \in BasicTexts : FetchResponds(c, 200, text)
    \/ \E c \in 1..MaxCalls : JsonSettles(c)

Spec == Init /\ [][Next]_vars

\* The session store alone, with every read and a second reader.
NextSession ==
    \/ \E token \in Tokens, user \in Users : SetSession(token, user)
    \/ LogoutRemoveToken
    \/ LogoutRemoveUser
    \/ IsAuthenticated
    \/ GetCurrentUser
    \/ GetAuthToken
    \/ OtherReader

SpecSession == Init /\ [][NextSession]_vars

\* The executor's contract: one call, made directly with any caller headers
\* or through an endpoint group, answered with any status and body.
NextExec ==
    \/ \E token \in Tokens : SetSession(token, CHOOSE u \in Users : TRUE)
    \/ /\ calls = <<>>
       /\ \E headers \in CallerHeaders :
             ApiRequest("apiRequest", Undefined, <<"/cart/list.php">>,
                        Options("GET", Undefined, headers))
    \/ calls = <<>> /\ AuthRegister(RegisterData)
    \/ calls = <<>> /\ AuthLogin(LoginData)
    \/ calls = <<>> /\ ProductsList(FeaturedOnly)
    \/ calls = <<>> /\ ProductsGetBySlug(<<"usb-hub">>)
    \/ calls = <<>> /\ CartAdd(Str(<<"prod-123">>), Num(2))
    \/ calls = <<>> /\ CartList
    \/ calls = <<>> /\ CartUpdate(Str(<<"item-9">>), Num(3))
    \/ calls = <<>> /\ CartRemove(Str(<<"item-9">>))
    \/ calls = <<>> /\ OrdersCreate(OrderData)
    \/ calls = <<>> /\ OrdersList
    \/ calls = <<>> /\ OrdersGetById(<<"ord-1">>)
    \/ \E err \in TransportErrors : FetchFails(1, err)
    \/ \E status \in HttpStatuses, text \in ResponseTexts : FetchResponds(1, status, text)
    \/ JsonSettles(1)

SpecExec == Init /\ [][NextExec]_vars

\* products.list as a function of its filters: one call per behaviour.
NextList ==
    \/ calls = <<>> /\ \E params \in ListParams : ProductsList(params)
    \/ \E err \in TransportErrors : FetchFails(1, err)
    \/ FetchResponds(1, 200, OkText)
    \/ JsonSettles(1)

SpecList == Init /\ [][NextList]_vars

\* The auth group: register and login with several inputs, next to the
\* local operations logout, getCurrentUser and isAuthenticated.
RegisterInputs ==
    { RegisterData,
      Obj(<<Prop("email", Str(<<"bo@shop.io">>)), Prop("password", Str(<<"p", "\"", "w">>))>>) }
LoginInputs ==
    { LoginData,
      Obj(<<Prop("email", Str(<<"bo@shop.io">>)), Prop("password", Str(<<"p", "\\", "w">>))>>) }

NextAuth ==
    \/ \E token \in {<<>>, <<"tok-abc">>} : SetSession(token, CHOOSE u \in Users : TRUE)
    \/ LogoutRemoveToken
    \/ LogoutRemoveUser
    \/ IsAuthenticated
    \/ GetCurrentUser
    \/ Len(calls) < MaxCalls /\ \E data \in RegisterInputs : AuthRegister(data)
    \/ Len(calls) < MaxCalls /\ \E data \in LoginInputs : AuthLogin(data)
    \/ \E c \in 1..MaxCalls, err \in TransportErrors : FetchFails(c, err)
    \/ \E c \in 1..MaxCalls, text \in BasicTexts : FetchResponds(c, 200, text)
    \/ \E c \in 1..MaxCalls : JsonSettles(c)

SpecAuth == Init /\ [][NextAuth]_vars

\* The operations that build a query string, as functions of their inputs:
\* slugs and order ids with and without the characters a query string
\* reserves, and every params object of products.list.
Slugs ==
    { <<"usb-hub">>, <<"a", "&", "b", "=", "c">>, <<"usb", " ", "hub">>,
      <<"x", "#", "y">>, <<"q", "?", "r">>, <<"c", "+", "+">> }
OrderIds == { <<"ord-1">>, <<"4", "2">>, <<"1", "&", "admin", "=", "1">>, <<"7", "#", "top">> }

NextQuery ==
    \/ calls = <<>> /\ \E slug \in Slugs : ProductsGetBySlug(slug)
    \/ calls = <<>> /\ \E orderId \in OrderIds : OrdersGetById(orderId)
    \/ calls = <<>> /\ \E params \in ListParams : ProductsList(params)
    \/ \E err \in TransportErrors : FetchFails(1, err)
    \/ FetchResponds(1, 200, OkText)
    \/ JsonSettles(1)

SpecQuery == Init /\ [][NextQuery]_vars

\* Calls in flight together: up to MaxConcurrent calls of orders.create and
\* cart.list start, are answered and settle in any order, while the session
\* is persisted and logged out.
MaxConcurrent == 2

NextConcurrent ==
    \/ SetSession(<<"tok-abc">>, CHOOSE u \in Users : TRUE)
    \/ LogoutRemoveToken
    \/ LogoutRemoveUser
    \/ Len(calls) < MaxConcurrent /\ OrdersCreate(OrderData)
    \/ Len(calls) < MaxConcurrent /\ CartList
    \/ \E c \in 1..MaxConcurrent, err \in TransportErrors : FetchFails(c, err)
    \/ \E c \in 1..MaxConcurrent, text \in BasicTexts : FetchResponds(c, 200, text)
    \/ \E c \in 1..MaxConcurrent : JsonSettles(c)

SpecConcurrent == Init /\ [][NextConcurrent]_vars

\* The executor under a fair scheduler: once a response has arrived, reading
\* its body is a step of the JavaScript runtime and is eventually taken; that
\* the network answers at all is not assumed.
NextLive ==
    \/ SetSession(<<"tok-abc">>, CHOOSE u \in Users : TRUE)
    \/ calls = <<>> /\ OrdersCreate(OrderData)
    \/ calls = <<>> /\ CartList
    \/ calls = <<>> /\ \E params \in {Undefined, FeaturedOnly} : ProductsList(params)
    \/ \E err \in TransportErrors : FetchFails(1, err)
    \/ \E status \in HttpStatuses, text \in BasicTexts : FetchResponds(1, status, text)
    \/ JsonSettles(1)

SpecLive ==
    /\ Init
    /\ [][NextLive]_vars
    /\ WF_vars(JsonSettles(1))

\* Several calls of cart.list answered with any status and any body.
NextStatus ==
    \/ Len(calls) < MaxConcurrent /\ CartList
    \/ \E c \in 1..MaxConcurrent, err \in TransportErrors : FetchFails(c, err)
    \/ \E c \in 1..MaxConcurrent, status \in HttpStatuses, text \in BasicTexts :
          FetchResponds(c, status, text)
    \/ \E c \in 1..MaxConcurrent : JsonSettles(c)

SpecStatus == Init /\ [][NextStatus]_vars

\* The StaffManagement page: its handlers in any order with any arguments.
StaffRoles == {"product_staff", "super_admin"}
StaffEmails == {"", "new@shop.io", "not-an-email"}
StaffUserIds == {"u1", "u2"}

NextStaff ==
    \/ FetchStaff
    \/ HandleAddStaff
    \/ \E userId \in StaffUserIds, newRole \in StaffRoles : HandleUpdateRole(userId, newRole)
    \/ \E userId \in StaffUserIds, confirmed \in BOOLEAN : HandleRemoveStaff(userId, confirmed)
    \/ \E open \in BOOLEAN : SetDialogOpen(open)
    \/ \E email \in StaffEmails : SetNewStaffEmail(email)
    \/ \E role \in StaffRoles : SetNewStaffRole(role)

SpecStaff == Init /\ [][NextStaff]_vars

\* The session store when other scripts of the origin write the user key.
NextStore ==
    \/ \E token \in Tokens, user \in Users : SetSession(token, user)
    \/ \E text \in StoredUserTexts : StorageWrite(text)
    \/ LogoutRemoveToken
    \/ LogoutRemoveUser
    \/ IsAuthenticated
    \/ GetCurrentUser
    \/ GetAuthToken

SpecStore == Init /\ [][NextStore]_vars

\* The Checkout page: the user and the cart the hooks give it, the form, the
\* submit button (disabled while loading, line 276), the backend's answers to
\* orders.create and the two ways clearCart settles.
MaxSubmissions == 2
CheckoutUsers == {Null} \cup {u \in Users : Get(u, "id") = Str(<<"u1">>)}
CheckoutCarts == {<<>>, <<"item-1">>}
CheckoutShipping == {ShippingInfo(<<"1 Main St">>, <<"Lagos">>, <<"100001">>, <<"Nigeria">>)}
PaymentMethods == {<<"cod">>}
CreatedNoData == JSONstringify(Envelope(Bool(TRUE), Str(<<"Order created">>), Undefined))
CheckoutAnswers ==
    {<<200, OkText>>, <<200, CreatedNoData>>, <<200, FailText>>, <<500, MalformedText>>}
ClearCartErrors == {Error("Error", <<"Failed to clear cart">>), Error("Error", <<>>)}
CanSubmit ==
    /\ ~checkout.loading
    /\ (ToBoolean(checkout.user) /\ Len(checkout.cartItems) # 0) => Len(calls) < MaxSubmissions
NextCheckout ==
    \/ \E user \in CheckoutUsers : UseAuth(user)
    \/ \E cartItems \in CheckoutCarts : UseCart(cartItems)
    \/ \E info \in CheckoutShipping : SetShippingInfo(info)
    \/ \E method \in PaymentMethods : SetPaymentMethod(method)
    \/ CanSubmit /\ HandleSubmit
    \/ \E c \in 1..Len(calls), err \in TransportErrors : FetchFails(c, err)
    \/ \E c \in 1..Len(calls), answer \in CheckoutAnswers : FetchResponds(c, answer[1], answer[2])
    \/ \E c \in 1..Len(calls) : JsonSettles(c)
    \/ AwaitOrdersCreate
    \/ ClearCartResolves
    \/ \E error \in ClearCartErrors : ClearCartRejects(error)

SpecCheckout == Init /\ [][NextCheckout]_vars

\* The Analytics page: fetchAnalytics on mount and again, and the backend's
\* answers to its two list requests.
MaxRuns == 2
Order(id, user_id, amount, created_at) ==
    Obj(<<Prop("id", Str(<<id>>)), Prop("user_id", Str(<<user_id>>)), Prop("total", amount),
          Prop("created_at", Str(created_at))>>)
Order1 == Order("o1", "u1", Num(10), <<"2026", "-", "11", "-", "5">>)
Order2 == Order("o2", "u1", Str(<<"2", "5">>), <<"2025", "-", "11", "-", "5">>)
Order3 == Order("o3", "u2", Num(7), <<"2026", "-", "12", "-", "24">>)
Order4 == Order("o4", "u3", Num(10), <<"yesterday">>)
OrderLists ==
    {<<>>, <<Order1>>, <<Order3, Order1, Order2>>, <<Order1, Order2, Order3, Order4>>}
Product(name, review_count) == Obj(<<Prop("name", name), Prop("review_count", review_count)>>)
LongName == [i \in 1..21 |-> "n"]
ProductLists ==
    { <<Product(Str(<<"U", "S", "B">>), Num(3)), Product(Str(LongName), Num(8)),
        Product(Str(<<"P", "e", "n">>), Undefined)>>,
      <<Product(Null, Num(1))>> }
ListBodies(op) ==
    IF op = "orders.list"
    THEN {Envelope(Bool(TRUE), Undefined, Obj(<<Prop("orders", Arr(list))>>)) : list \in OrderLists}
         \cup {Envelope(Bool(TRUE), Undefined, Obj(<<>>))}
    ELSE {Envelope(Bool(TRUE), Undefined, Obj(<<Prop("products", Arr(list))>>)) : list \in ProductLists}
         \cup {Envelope(Bool(TRUE), Undefined, Obj(<<>>))}
AnalyticsRuns == Cardinality({c \in 1..Len(calls) : calls[c].op = "orders.list"})
NextAnalytics ==
    \/ AnalyticsRuns < MaxRuns /\ FetchAnalytics
    \/ \E c \in 1..Len(calls) : FetchFails(c, Error("TypeError", <<"Failed to fetch">>))
    \/ \E c \in 1..Len(calls), text \in {FailText, CreatedNoData} : FetchResponds(c, 200, text)
    \/ \E c \in 1..Len(calls) : JsonSettles(c)
    \/ \E c \in 1..Len(calls) : \E data \in ListBodies(calls[c].op) : ListSettles(c, data)
    \/ AwaitOrdersList
    \/ AwaitProductsList

SpecAnalytics == Init /\ [][NextAnalytics]_vars

\* The order summary of the Checkout page for every subtotal of a whole
\* number of cents up to MaxSubtotal, the cart changing by up to 1.00 at a
\* time.
MaxSubtotal == 5100
NextSummary ==
    \E change \in -100..100 :
        /\ checkout.subtotal + change \in 0..MaxSubtotal
        /\ UseSubtotal(checkout.subtotal + change)

SpecSummary == Init /\ [][NextSummary]_vars

\* The Checkout page with its form left as it is, when whatever is pending
\* settles: the network answers a request in flight, the body is read,
\* clearCart settles, and a handler whose awaited promise has settled resumes.
NextCheckoutLive ==
    \/ \E user \in CheckoutUsers : UseAuth(user)
    \/ \E cartItems \in CheckoutCarts : UseCart(cartItems)
    \/ CanSubmit /\ HandleSubmit
    \/ \E c \in 1..Len(calls), err \in TransportErrors : FetchFails(c, err)
    \/ \E c \in 1..Len(calls), answer \in CheckoutAnswers : FetchResponds(c, answer[1], answer[2])
    \/ \E c \in 1..Len(calls) : JsonSettles(c)
    \/ AwaitOrdersCreate
    \/ ClearCartResolves
    \/ \E error \in ClearCartErrors : ClearCartRejects(error)
NetworkAnswers ==
    \E c \in 1..Len(calls) :
        \/ \E err \in TransportErrors : FetchFails(c, err)
        \/ \E answer \in CheckoutAnswers : FetchResponds(c, answer[1], answer[2])
BodyRead == \E c \in 1..Len(calls) : JsonSettles(c)
ClearCartSettles == ClearCartResolves \/ \E error \in ClearCartErrors : ClearCartRejects(error)

SpecCheckoutLive ==
    /\ Init
    /\ [][NextCheckoutLive]_vars
    /\ WF_vars(NetworkAnswers)
    /\ WF_vars(BodyRead)
    /\ WF_vars(AwaitOrdersCreate)
    /\ WF_vars(ClearCartSettles)

-----------------------------------------------------------------------------
(* The session store (SpecSession) *)

NonEmptyString(v) == v.t = "string" /\ Len(v.s) > 0

\* C6: isAuthenticated() returns true exactly when a non-empty token is
\* persisted under the token key, and returns false in the state right after
\* auth.logout.
C6_IsAuthenticatedIffToken ==
    /\ isAuthenticated <=> NonEmptyString(localStorage[TOKEN_KEY])
    /\ ret.op = "isAuthenticated" =>
          ret.v = Bool(NonEmptyString(localStorage[TOKEN_KEY]))
    /\ ret.op = "logout" => ~isAuthenticated

\* An empty token is persisted and isAuthenticated() has returned false.
C6_Witness ==
    /\ ret.op = "isAuthenticated"
    /\ ret.v = Bool(FALSE)
    /\ localStorage[TOKEN_KEY] = Str(<<>>)

\* C7: when auth.logout returns, both keys are removed, so that the token
\* read and getCurrentUser() give null, whatever the store held before; a
\* logout on the empty store leaves it empty at each of its two statements.
C7_LogoutClearsBoth ==
    [][ /\ (logoutPc = "removedToken" /\ logoutPc' = "idle") =>
              /\ localStorage' = EmptyStore
              /\ getAuthToken' = Null
              /\ getCurrentUser' = [threw |-> FALSE, v |-> Null]
        /\ (localStorage = EmptyStore /\ logoutPc' # logoutPc) =>
              localStorage' = EmptyStore ]_vars

\* auth.logout has returned on a store in which another reader had seen a
\* token and a user.
C7_Witness ==
    /\ ret.op = "logout"
    /\ seen.token.t = "string"
    /\ seen.user.t = "string"
    /\ localStorage = EmptyStore

\* C8 as stated: in every state, the one between logout's two removals
\* included, and in everything another reader observes, the user is non-null
\* only while the token is non-null.
C8_Original ==
    /\ localStorage[USER_KEY] # Null => localStorage[TOKEN_KEY] # Null
    /\ seen.user.t = "string" => seen.token.t = "string"

\* C8 amended: the user is non-null only while the token is non-null in every
\* state in which no logout stands between its two removals.
C8_UserOnlyWithToken ==
    logoutPc = "idle" =>
        (localStorage[USER_KEY] # Null => localStorage[TOKEN_KEY] # Null)

\* A session is persisted again after another reader saw the store with the
\* token removed and the user still there.
C8_Witness ==
    /\ logoutPc = "idle"
    /\ localStorage[USER_KEY] # Null
    /\ localStorage[TOKEN_KEY] # Null
    /\ seen.token = Null
    /\ seen.user.t = "string"

\* C9: while a persisted session has not been logged out, the token read is
\* the token string that was stored and getCurrentUser() returns, without
\* throwing, a user deep-equal to the one stored.
C9_SessionRoundTrip ==
    (session.has /\ logoutPc = "idle") =>
        /\ getAuthToken = Str(session.token)
        /\ ~getCurrentUser.threw
        /\ DeepEqual(getCurrentUser.v, session.user)
        /\ ret.op = "getAuthToken" => ret.v = Str(session.token)
        /\ ret.op = "getCurrentUser" =>
              ~ret.threw /\ DeepEqual(ret.v, session.user)

\* getCurrentUser() has returned the user stored with full_name null and no
\* role.
C9_Witness ==
    /\ session.has
    /\ ret.op = "getCurrentUser"
    /\ Get(session.user, "full_name") = Null
    /\ ~HasKey(session.user, "role")
    /\ Get(ret.v, "id") = Get(session.user, "id")

\* C21: a return of auth.getCurrentUser() leaves the store as it was; the
\* call returns null when no user value or the empty string is persisted,
\* throws when the persisted value is not JSON, and returns the parsed value
\* otherwise.
C21_GetCurrentUserUnguarded ==
    [][ (ret' # ret /\ ret'.op = "getCurrentUser") =>
          LET userStr == localStorage[USER_KEY] IN
          /\ localStorage' = localStorage
          /\ (userStr = Null \/ userStr = Str(<<>>)) =>
                ret' = Returned("getCurrentUser", "self", Null)
          /\ (NonEmptyString(userStr) /\ ~JSONparse(userStr.s).ok) =>
                ret' = Threw("getCurrentUser", "self")
          /\ (NonEmptyString(userStr) /\ JSONparse(userStr.s).ok) =>
                ret' = Returned("getCurrentUser", "self", JSONparse(userStr.s).v) ]_vars

\* getCurrentUser has thrown on a persisted user value that is cut short,
\* and the value is still there.
C21_Witness ==
    /\ ret = Threw("getCurrentUser", "self")
    /\ localStorage[USER_KEY] = Str(<<"{", "\"", "id", "\"", ":">>)

-----------------------------------------------------------------------------
(* The session store and the endpoint groups (Spec) *)

IsSettled(call) == call.status \in {"resolved", "rejected"}
Body(call) == JSONparse(call.response.text)

EndpointOps ==
    {"auth.register", "auth.login", "products.list", "products.getBySlug",
     "cart.add", "cart.list", "cart.update", "cart.remove",
     "orders.create", "orders.list", "orders.getById"}

\* A step of the executor: a call starts, its fetch settles or its body is
\* parsed.
ExecutorStep == calls' # calls

\* C3: the request a call sends carries Authorization: Bearer <token> with
\* the token persisted when the call starts if that token is non-empty, and
\* no Authorization header when no token or an empty one is persisted.
C3_BearerIffToken ==
    [][ Len(calls') > Len(calls) =>
          LET call == calls'[Len(calls')] IN
          /\ call.op \in EndpointOps
          /\ fetchLog' = Append(fetchLog, call.request)
          /\ call.request.headers["Authorization"] =
                IF NonEmptyString(localStorage[TOKEN_KEY])
                THEN Str(<<"Bearer ">> \o localStorage[TOKEN_KEY].s)
                ELSE Undefined ]_vars

\* cart.add has sent its request with the bearer header while tok-abc is
\* persisted.
C3_Witness ==
    \E c \in 1..Len(calls) :
        /\ calls[c].op = "cart.add"
        /\ calls[c].token = Str(<<"tok-abc">>)
        /\ fetchLog[c].headers["Authorization"] = Str(<<"Bearer ", "tok-abc">>)

\* C5: no step of the executor changes the persisted token or user, nor
\* what isAuthenticated() returns; the store changes only in a statement of
\* auth.logout or when the caller persists a session.
C5_RequestsLeaveSession ==
    [][ /\ ExecutorStep =>
              /\ localStorage' = localStorage
              /\ isAuthenticated' = isAuthenticated
        /\ localStorage' # localStorage =>
              \/ logoutPc' # logoutPc
              \/ /\ session'.has
                 /\ localStorage'[TOKEN_KEY] = Str(session'.token) ]_vars

\* auth.login has resolved and the store is still empty.
C5_Witness ==
    \E c \in 1..Len(calls) :
        /\ calls[c].op = "auth.login"
        /\ calls[c].status = "resolved"
        /\ localStorage = EmptyStore
        /\ ~isAuthenticated

CartAddCalls == {c \in 1..Len(calls) : calls[c].op = "cart.add"}

\* {"product_id":"prod-123","quantity":2}
CartAddExampleBody ==
    <<"{", "\"", "product_id", "\"", ":", "\"", "prod-123", "\"", ",",
      "\"", "quantity", "\"", ":", "2", "}">>

\* C13: cart.add(productId, quantity) sends one request, POST /cart/add.php
\* under the base URL, whose body is the JSON text of {product_id: productId,
\* quantity: quantity}, with quantity 1 when the argument is omitted; the
\* request carries Authorization: Bearer <token> when a non-empty token is
\* persisted at the call, and the call resolves to the backend's envelope
\* when that has success true.
C13_CartAdd ==
    /\ Len(fetchLog) = Len(calls)
    /\ \A c \in CartAddCalls :
          LET productId == Get(calls[c].args, "productId")
              quantity == Get(calls[c].args, "quantity")
              request == calls[c].request
          IN
          /\ fetchLog[c] = request
          /\ request.method = "POST"
          /\ request.url = API_BASE_URL \o <<"/cart/add.php">>
          /\ request.body.t = "string"
          /\ JSONparse(request.body.s).ok
          /\ JSONparse(request.body.s).v =
                Obj(<<Prop("product_id", productId),
                      Prop("quantity", IF quantity = Undefined THEN Num(1) ELSE quantity)>>)
          /\ (productId = Str(<<"prod-123">>) /\ quantity = Num(2)) =>
                request.body.s = CartAddExampleBody
          /\ NonEmptyString(calls[c].token) =>
                request.headers["Authorization"] = Str(<<"Bearer ">> \o calls[c].token.s)
          /\ (IsSettled(calls[c]) /\ calls[c].response # NoResponse /\ Body(calls[c]).ok
                  /\ Get(Body(calls[c]).v, "success") = Bool(TRUE)) =>
                /\ calls[c].status = "resolved"
                /\ calls[c].value = Body(calls[c]).v

\* cart.add was called without a quantity while tok-abc is persisted: the
\* body carries quantity 1, the request the bearer header, and the call has
\* resolved to the backend's envelope.
C13_Witness ==
    \E c \in CartAddCalls :
        /\ Get(calls[c].args, "quantity") = Undefined
        /\ calls[c].token = Str(<<"tok-abc">>)
        /\ Get(JSONparse(fetchLog[c].body.s).v, "quantity") = Num(1)
        /\ fetchLog[c].headers["Authorization"] = Str(<<"Bearer ", "tok-abc">>)
        /\ calls[c].status = "resolved"
        /\ Get(calls[c].value, "message") = Str(<<"Added">>)

-----------------------------------------------------------------------------
(* The executor's contract (SpecExec) *)

\* The success field that was read is falsy: false, 0, "", null or missing.
FalsySuccess(body) ==
    LET success == Get(body, "success") IN
    \/ success.t \in {"undefined", "null"}
    \/ success = Bool(FALSE)
    \/ success = Num(0)
    \/ success = Str(<<>>)

MessageAbsent(body) == Get(body, "message").t \in {"undefined", "null"}
MessageText(body) ==
    LET message == Get(body, "message") IN
    IF message.t = "number" THEN NumberToString(message.n) ELSE message.s

\* C1 as stated: a call whose parsed body is an object with a falsy success
\* rejects with the body's message, or with the fallback when the message is
\* absent.
C1_Original ==
    \A c \in 1..Len(calls) :
        (IsSettled(calls[c]) /\ calls[c].response.status # 0 /\ Body(calls[c]).ok
            /\ Body(calls[c]).v.t = "object" /\ FalsySuccess(Body(calls[c]).v)) =>
        /\ calls[c].status = "rejected"
        /\ calls[c].error.message =
              IF MessageAbsent(Body(calls[c]).v) THEN FALLBACK_MESSAGE
              ELSE MessageText(Body(calls[c]).v)

\* C1 amended: a call whose parsed body is not null and has a falsy success
\* never resolves; it rejects with an Error whose message is the body's
\* message when that is a non-empty string (or a non-zero number, as text),
\* and 'API request failed' when the message is absent, null or empty.
C1_RejectsWithMessage ==
    \A c \in 1..Len(calls) :
        (IsSettled(calls[c]) /\ calls[c].response.status # 0 /\ Body(calls[c]).ok
            /\ Body(calls[c]).v.t # "null" /\ FalsySuccess(Body(calls[c]).v)) =>
        /\ calls[c].status = "rejected"
        /\ calls[c].value = Undefined
        /\ calls[c].error.name = "Error"
        /\ calls[c].error.message =
              IF MessageAbsent(Body(calls[c]).v) \/ MessageText(Body(calls[c]).v) = <<>>
                 \/ Get(Body(calls[c]).v, "message") = Num(0)
              THEN FALLBACK_MESSAGE
              ELSE MessageText(Body(calls[c]).v)

\* orders.create was answered success false with an empty message and has
\* rejected with the fallback message.
C1_Witness ==
    \E c \in 1..Len(calls) :
        /\ calls[c].op = "orders.create"
        /\ calls[c].status = "rejected"
        /\ Body(calls[c]).ok
        /\ Get(Body(calls[c]).v, "success") = Bool(FALSE)
        /\ Get(Body(calls[c]).v, "message") = Str(<<>>)
        /\ calls[c].error = Error("Error", FALLBACK_MESSAGE)

\* C2 as stated: whenever a call resolves, the success field of the value is
\* exactly the boolean true.
C2_Original ==
    \A c \in 1..Len(calls) :
        calls[c].status = "resolved" => Get(calls[c].value, "success") = Bool(TRUE)

\* C2 amended: whenever a call resolves, the success field of the value is
\* truthy (true, a non-zero number, a non-empty string), and it is the
\* boolean true whenever the body's success field is a boolean.
C2_ResolvedIsTruthy ==
    \A c \in 1..Len(calls) :
        calls[c].status = "resolved" =>
            LET success == Get(calls[c].value, "success") IN
            /\ ~FalsySuccess(calls[c].value)
            /\ success.t = "boolean" => success = Bool(TRUE)
            /\ Get(Body(calls[c]).v, "success") = success

\* A call answered with success 1 has resolved.
C2_Witness ==
    \E c \in 1..Len(calls) :
        /\ calls[c].status = "resolved"
        /\ Get(calls[c].value, "success") = Num(1)

CallerSupplied(call, h) == call.headers[h] # Undefined

\* C4 as stated: every header the caller supplies is the header the request
\* carries, Authorization included, and without caller headers the request
\* carries Content-Type: application/json.
C4_Original ==
    \A c \in 1..Len(calls) :
        /\ \A h \in HeaderNames :
              CallerSupplied(calls[c], h) =>
                  calls[c].request.headers[h] = calls[c].headers[h]
        /\ calls[c].headers = NoHeaders =>
              calls[c].request.headers["Content-Type"] = Str(<<"application/json">>)

\* C4 amended: a caller-supplied header other than Authorization is the
\* header the request carries (Content-Type replaces application/json); a
\* caller-supplied Authorization is carried only when no non-empty token is
\* persisted when the call starts, and is replaced by Bearer <token>
\* otherwise; without a caller Content-Type the request carries
\* Content-Type: application/json.
C4_CallerHeadersMerge ==
    \A c \in 1..Len(calls) :
        /\ \A h \in HeaderNames \ {"Authorization"} :
              CallerSupplied(calls[c], h) =>
                  calls[c].request.headers[h] = calls[c].headers[h]
        /\ calls[c].request.headers["Authorization"] =
              IF NonEmptyString(calls[c].token)
              THEN Str(<<"Bearer ">> \o calls[c].token.s)
              ELSE calls[c].headers["Authorization"]
        /\ ~CallerSupplied(calls[c], "Content-Type") =>
              calls[c].request.headers["Content-Type"] = Str(<<"application/json">>)

\* A call made with a caller Authorization and a caller Content-Type while
\* tok-abc is persisted carries the bearer header and the caller's
\* Content-Type.
C4_Witness ==
    \E c \in 1..Len(calls) :
        /\ calls[c].headers["Authorization"] = Str(<<"Basic ", "abc">>)
        /\ calls[c].headers["Content-Type"] = Str(<<"text/plain">>)
        /\ calls[c].token = Str(<<"tok-abc">>)
        /\ calls[c].request.headers["Authorization"] = Str(<<"Bearer ", "tok-abc">>)
        /\ calls[c].request.headers["Content-Type"] = Str(<<"text/plain">>)

\* What apiRequest itself settles with, from what the network gave it.
ExecutorOutcome(call) ==
    IF call.response = NoResponse THEN Rejection(call.thrown)
    ELSE IF ~Body(call).ok THEN Rejection(SyntaxError)
    ELSE Outcome(Body(call).v)

TruthySuccess(body) == body.t = "object" /\ ~FalsySuccess(body)

\* C12: a call resolves exactly when its body parses to an object with a
\* truthy success, and the value it resolves with is the whole parsed body,
\* success, message and data as the backend sent them, never the data field
\* alone; this holds for every endpoint-group operation and for direct calls.
C12_ResolvesWithEnvelope ==
    \A c \in 1..Len(calls) :
        /\ calls[c].status = "resolved" =>
              /\ Body(calls[c]).ok
              /\ calls[c].value = Body(calls[c]).v
              /\ \A field \in {"success", "message", "data"} :
                    Get(calls[c].value, field) = Get(Body(calls[c]).v, field)
              /\ calls[c].error = NoError
        /\ (IsSettled(calls[c]) /\ calls[c].response # NoResponse /\ Body(calls[c]).ok
                /\ TruthySuccess(Body(calls[c]).v)) =>
              /\ calls[c].status = "resolved"
              /\ calls[c].value = Body(calls[c]).v

\* orders.create has resolved with an envelope that has a message and a data
\* field holding the order, and the value is that envelope, not the order.
C12_Witness ==
    \E c \in 1..Len(calls) :
        /\ calls[c].op = "orders.create"
        /\ calls[c].status = "resolved"
        /\ Get(calls[c].value, "success") = Bool(TRUE)
        /\ Get(calls[c].value, "message") = Str(<<"Cart is empty">>)
        /\ Get(calls[c].value, "data") = OrderPayload
        /\ calls[c].value # OrderPayload

\* C14: whenever the executor rejects, the operation that called it rejects
\* with the same error, name and message, and has no value; an operation
\* never resolves when the executor rejected.  orders.create answered
\* success false with message 'Cart is empty' rejects with 'Cart is empty'.
C14_FailuresPropagate ==
    \A c \in 1..Len(calls) :
        /\ (IsSettled(calls[c]) /\ ExecutorOutcome(calls[c]).status = "rejected") =>
              /\ calls[c].status = "rejected"
              /\ calls[c].error = ExecutorOutcome(calls[c]).error
              /\ calls[c].error # NoError
              /\ calls[c].value = Undefined
        /\ (IsSettled(calls[c]) /\ calls[c].response # NoResponse /\ Body(calls[c]).ok
                /\ Get(Body(calls[c]).v, "success") = Bool(FALSE)
                /\ Get(Body(calls[c]).v, "message") = Str(<<"Cart is empty">>)) =>
              /\ calls[c].status = "rejected"
              /\ calls[c].error = Error("Error", <<"Cart is empty">>)

\* orders.create was answered success false, 'Cart is empty', and has
\* rejected with that message.
C14_Witness ==
    \E c \in 1..Len(calls) :
        /\ calls[c].op = "orders.create"
        /\ Get(Body(calls[c]).v, "success") = Bool(FALSE)
        /\ calls[c].status = "rejected"
        /\ calls[c].error = Error("Error", <<"Cart is empty">>)
        /\ calls[c].value = Undefined

\* C18: a call whose fetch failed rejects with the error fetch threw, and a
\* call whose body is not JSON rejects with the SyntaxError of
\* response.json(); neither rejects with the server-message error or with
\* 'API request failed', and neither resolves.
C18_TransportAndParseErrors ==
    \A c \in 1..Len(calls) :
        /\ (IsSettled(calls[c]) /\ calls[c].response = NoResponse) =>
              /\ calls[c].status = "rejected"
              /\ calls[c].thrown \in TransportErrors
              /\ calls[c].error = calls[c].thrown
              /\ calls[c].error.name # "Error"
              /\ calls[c].error.message # FALLBACK_MESSAGE
        /\ (IsSettled(calls[c]) /\ calls[c].response # NoResponse /\ ~Body(calls[c]).ok) =>
              /\ calls[c].status = "rejected"
              /\ calls[c].error = SyntaxError
              /\ calls[c].error.name # "Error"
              /\ calls[c].error.message # FALLBACK_MESSAGE

\* One call has rejected with the TypeError of a failed fetch and another
\* with the SyntaxError of an HTML body.
C18_Witness ==
    \E c, d \in 1..Len(calls) :
        /\ calls[c].status = "rejected"
        /\ calls[c].response = NoResponse
        /\ calls[c].error = Error("TypeError", <<"Failed to fetch">>)
        /\ calls[d].status = "rejected"
        /\ calls[d].response.text = MalformedText
        /\ calls[d].error.name = "SyntaxError"

-----------------------------------------------------------------------------
(* Calls in flight together (SpecConcurrent) *)

\* C15: a call issues its one request when it starts and none afterwards:
\* the step that starts a call appends exactly that call's request to the
\* requests sent and leaves the call pending with no response, and no other
\* step (a failed fetch, a response, a malformed or failing body) sends a
\* request; so the requests sent are, one for one, the calls made.
C15_OneRequestPerCall ==
    [][ /\ Len(calls') > Len(calls) =>
              /\ Len(calls') = Len(calls) + 1
              /\ fetchLog' = Append(fetchLog, calls'[Len(calls')].request)
              /\ calls'[Len(calls')].status = "fetching"
              /\ calls'[Len(calls')].response = NoResponse
        /\ Len(calls') <= Len(calls) =>
              /\ Len(calls') = Len(calls)
              /\ fetchLog' = fetchLog
        /\ Len(fetchLog') = Len(calls') ]_vars

\* orders.create was called twice with the same payload and the same token;
\* the first call has resolved, the second has rejected on a failed fetch,
\* and two equal requests were sent.
C15_Witness ==
    /\ Len(calls) = 2
    /\ calls[1].op = "orders.create" /\ calls[2].op = "orders.create"
    /\ calls[1].request = calls[2].request
    /\ calls[1].status = "resolved"
    /\ calls[2].status = "rejected" /\ calls[2].response = NoResponse
    /\ Len(fetchLog) = 2
    /\ fetchLog[1] = fetchLog[2]

Answered(call) == call.response # NoResponse

\* C16: the token is read once, when the call starts: the request's
\* Authorization header is the bearer header of the token persisted at that
\* moment; no later step changes the token captured, the request or the
\* request sent; a step that changes the persisted session (a logout
\* statement, a new session) leaves every call as it is; and a settled call
\* has resolved exactly when its own response parsed to an object with a
\* truthy success, whatever the session is by then.
C16_TokenCapturedAtStart ==
    [][ /\ Len(calls') > Len(calls) =>
              LET call == calls'[Len(calls')] IN
              /\ call.token = localStorage[TOKEN_KEY]
              /\ call.request.headers["Authorization"] =
                    IF NonEmptyString(call.token)
                    THEN Str(<<"Bearer ">> \o call.token.s) ELSE Undefined
        /\ \A c \in 1..Len(calls) :
              /\ calls'[c].token = calls[c].token
              /\ calls'[c].request = calls[c].request
              /\ fetchLog'[c] = fetchLog[c]
        /\ (localStorage' # localStorage \/ logoutPc' # logoutPc) => calls' = calls
        /\ \A c \in 1..Len(calls') :
              IsSettled(calls'[c]) =>
                  (calls'[c].status = "resolved" <=>
                      /\ Answered(calls'[c])
                      /\ Body(calls'[c]).ok
                      /\ TruthySuccess(Body(calls'[c]).v)) ]_vars

\* orders.create started while tok-abc was persisted and sent the bearer
\* header; auth.logout has just returned and emptied the store, and the
\* call is still pending with the request it sent.
C16_Witness ==
    \E c \in 1..Len(calls) :
        /\ calls[c].op = "orders.create"
        /\ calls[c].token = Str(<<"tok-abc">>)
        /\ fetchLog[c].headers["Authorization"] = Str(<<"Bearer ", "tok-abc">>)
        /\ localStorage = EmptyStore
        /\ ret = Returned("logout", "self", Undefined)
        /\ calls[c].status = "fetching"

\* C17: calls in flight together do not constrain each other: every call
\* has its own request among the requests sent, also when another call sent
\* an equal one; a pending call can be answered or fail whatever the state
\* of the other calls, so responses arrive in any order; and a settled call
\* is settled as its own response says, resolved with its own parsed body or
\* rejected with its own error.
C17_CallsIndependent ==
    /\ Len(fetchLog) = Len(calls)
    /\ \A c \in 1..Len(calls) :
          /\ fetchLog[c] = calls[c].request
          /\ (calls[c].status = "fetching" /\ logoutPc = "idle") =>
                /\ \A text \in BasicTexts : ENABLED FetchResponds(c, 200, text)
                /\ \A err \in TransportErrors : ENABLED FetchFails(c, err)
          /\ IsSettled(calls[c]) =>
                /\ calls[c].status = ExecutorOutcome(calls[c]).status
                /\ calls[c].value = ExecutorOutcome(calls[c]).value
                /\ calls[c].error = ExecutorOutcome(calls[c]).error

\* Two orders.create calls with the same payload sent two equal requests;
\* the second was answered first and has rejected with 'Cart is empty'
\* while the first is still pending.
C17_Witness ==
    /\ Len(calls) = 2
    /\ calls[1].op = "orders.create" /\ calls[2].op = "orders.create"
    /\ calls[1].args = calls[2].args
    /\ Len(fetchLog) = 2
    /\ fetchLog[1] = fetchLog[2]
    /\ calls[1].status = "fetching"
    /\ calls[2].status = "rejected"
    /\ calls[2].error = Error("Error", <<"Cart is empty">>)

-----------------------------------------------------------------------------
(* Settling (SpecLive) *)

\* C22: a call whose response has arrived eventually settles, resolved or
\* rejected; a settled call never changes again; and a pending call leaves
\* the pending state only by a response arriving or by fetch failing, so a
\* call the network never answers stays pending for ever.
C22_SettlesOnce ==
    /\ (calls # <<>> /\ calls[1].status = "parsing") ~> (calls # <<>> /\ IsSettled(calls[1]))
    /\ [][ \A c \in 1..Len(calls) :
              /\ IsSettled(calls[c]) => calls'[c] = calls[c]
              /\ (calls[c].status = "fetching" /\ calls'[c] # calls[c]) =>
                    \/ calls'[c].status = "parsing" /\ Answered(calls'[c])
                    \/ /\ calls'[c].status = "rejected"
                       /\ calls'[c].thrown \in TransportErrors
              /\ (calls[c].status = "parsing" /\ calls'[c] # calls[c]) =>
                    IsSettled(calls'[c]) ]_vars

\* orders.create was answered with status 500 and an HTML body and has
\* settled, rejected.
C22_Witness ==
    \E c \in 1..Len(calls) :
        /\ calls[c].op = "orders.create"
        /\ calls[c].response = [status |-> 500, text |-> MalformedText]
        /\ calls[c].status = "rejected"

-----------------------------------------------------------------------------
(* The HTTP status (SpecStatus) *)

SameOutcome(a, b) ==
    /\ a.status = b.status
    /\ a.value = b.value
    /\ a.error = b.error

\* C28: two settled calls whose responses have the same body have the same
\* outcome, the same value or the same error, whatever the two status codes;
\* a response with a success true body resolves also with status 500 and a
\* response with a success false body rejects also with status 200.
C28_StatusIgnored ==
    \A c, d \in 1..Len(calls) :
        (IsSettled(calls[c]) /\ Answered(calls[c])) =>
            /\ (IsSettled(calls[d]) /\ Answered(calls[d])
                    /\ calls[d].response.text = calls[c].response.text) =>
                  SameOutcome(calls[c], calls[d])
            /\ calls[c].response.text = OkText => calls[c].status = "resolved"
            /\ calls[c].response.text = FailText => calls[c].status = "rejected"

\* Two calls were answered with the same success true body, one with status
\* 500 and one with status 200, and both have resolved with the same value.
C28_Witness ==
    \E c, d \in 1..Len(calls) :
        /\ calls[c].response = [status |-> 500, text |-> OkText]
        /\ calls[d].response = [status |-> 200, text |-> OkText]
        /\ calls[c].status = "resolved"
        /\ calls[d].status = "resolved"
        /\ calls[c].value = calls[d].value

-----------------------------------------------------------------------------
(* products.list (SpecList) *)

\* The query of a URL as the server reads it: the text after the first "?",
\* cut at every "&", each piece cut at its first "=".
IndexOf(s, a) == CHOOSE i \in 1..Len(s) : s[i] = a /\ \A j \in 1..(i - 1) : s[j] # a
Contains(s, a) == \E i \in 1..Len(s) : s[i] = a
Before(s, a) == IF Contains(s, a) THEN SubSeq(s, 1, IndexOf(s, a) - 1) ELSE s
After(s, a) == IF Contains(s, a) THEN SubSeq(s, IndexOf(s, a) + 1, Len(s)) ELSE <<>>

RECURSIVE QueryPieces(_)
QueryPieces(query) ==
    IF query = <<>> THEN <<>>
    ELSE <<KeyValue(Before(Before(query, "&"), "="), After(Before(query, "&"), "="))>>
         \o QueryPieces(After(query, "&"))

QueryPairs(url) == QueryPieces(After(url, "?"))
QueryValues(url, name) ==
    LET pairs == QueryPairs(url) IN
    [i \in 1..Cardinality({j \in 1..Len(pairs) : pairs[j].k = <<name>>}) |->
        pairs[CHOOSE j \in 1..Len(pairs) :
                 /\ pairs[j].k = <<name>>
                 /\ Cardinality({m \in 1..j : pairs[m].k = <<name>>}) = i].v]
InQuery(url, name) == Len(QueryValues(url, name)) > 0

Supplied(params, name) == params.t = "object" /\ HasKey(params, name)
SuppliedTruthy(params, name) ==
    /\ Supplied(params, name)
    /\ Get(params, name) \notin {Undefined, Null, Bool(FALSE), Num(0), Str(<<>>)}

ListCalls == {c \in 1..Len(calls) : calls[c].op = "products.list"}

\* C10 as stated: a key is in the query string exactly when the caller
\* supplied that filter, whatever its value, and featured: true is sent as
\* featured=1.
C10_Original ==
    \A c \in ListCalls : \A name \in FilterKeys :
        /\ InQuery(calls[c].request.url, name) <=> Supplied(calls[c].args, name)
        /\ Optional(calls[c].args, "featured") = Bool(TRUE) =>
              QueryValues(calls[c].request.url, "featured") = <<(<<"1">>)>>

\* C10 amended: a key is in the query string, once, exactly when the caller
\* supplied that filter with a truthy value (a non-empty string, a non-zero
\* number, true); a filter that is not supplied or is falsy (limit 0,
\* offset 0, an empty string, featured false) is omitted, no other key is
\* sent, and featured: true is sent as featured=1.
C10_KeyIffTruthy ==
    \A c \in ListCalls :
        /\ \A name \in FilterKeys :
              /\ InQuery(calls[c].request.url, name) <=>
                    SuppliedTruthy(calls[c].args, name)
              /\ Len(QueryValues(calls[c].request.url, name)) <= 1
        /\ \A i \in 1..Len(QueryPairs(calls[c].request.url)) :
              \E name \in FilterKeys : QueryPairs(calls[c].request.url)[i].k = <<name>>
        /\ Optional(calls[c].args, "featured") = Bool(TRUE) =>
              QueryValues(calls[c].request.url, "featured") = <<(<<"1">>)>>

\* products.list was called with featured true, limit 0 and a search text:
\* the query holds featured=1 and search and neither limit nor the filters
\* that were not supplied.
C10_Witness ==
    \E c \in ListCalls :
        /\ Get(calls[c].args, "featured") = Bool(TRUE)
        /\ Get(calls[c].args, "limit") = Num(0)
        /\ SuppliedTruthy(calls[c].args, "search")
        /\ ~Supplied(calls[c].args, "category")
        /\ ~Supplied(calls[c].args, "offset")
        /\ QueryValues(calls[c].request.url, "featured") = <<(<<"1">>)>>
        /\ InQuery(calls[c].request.url, "search")
        /\ ~InQuery(calls[c].request.url, "limit")
        /\ ~InQuery(calls[c].request.url, "category")
        /\ ~InQuery(calls[c].request.url, "offset")


\* The keys of a query string, in the order they are sent.
SentKeys(url) == [i \in 1..Len(QueryPairs(url)) |-> QueryPairs(url)[i].k]

\* The filters the caller supplied with a truthy value, in the order the
\* caller inserted them into the params object.
InsertedKeys(params) ==
    LET Sent(k) == \E name \in FilterKeys : k = <<name>> /\ SuppliedTruthy(params, name) IN
    IF params.t = "object" THEN SelectSeq(Keys(params), Sent) ELSE <<>>

\* The order of the appends in products.list.
SourceOrder == <<"category", "featured", "search", "limit", "offset">>
SourceKeys(params) ==
    LET Sent(k) == \E name \in FilterKeys : k = <<name>> /\ SuppliedTruthy(params, name) IN
    SelectSeq([i \in 1..Len(SourceOrder) |-> <<SourceOrder[i]>>], Sent)

LimitThenOffset == Obj(<<Prop("limit", Num(10)), Prop("offset", Num(20))>>)
OffsetThenLimit == Obj(<<Prop("offset", Num(20)), Prop("limit", Num(10))>>)
LimitOffsetQuery == <<"limit", "=", "1", "0", "&", "offset", "=", "2", "0">>

\* C11 as stated: the keys of the query string follow the order in which the
\* caller inserted the filters, and {limit: 10, offset: 20} yields
\* limit=10&offset=20.
C11_Original ==
    \A c \in ListCalls :
        /\ SentKeys(calls[c].request.url) = InsertedKeys(calls[c].args)
        /\ calls[c].args = LimitThenOffset =>
              After(calls[c].request.url, "?") = LimitOffsetQuery

\* C11 amended: the keys of the query string follow the fixed order category,
\* featured, search, limit, offset, whatever order the caller inserted the
\* filters in; {limit: 10, offset: 20} yields limit=10&offset=20, and so does
\* {offset: 20, limit: 10}.
C11_SourceOrder ==
    \A c \in ListCalls :
        /\ SentKeys(calls[c].request.url) = SourceKeys(calls[c].args)
        /\ calls[c].args \in {LimitThenOffset, OffsetThenLimit} =>
              After(calls[c].request.url, "?") = LimitOffsetQuery

\* products.list was called with offset inserted before limit, and the query
\* sent is limit=10&offset=20.
C11_Witness ==
    \E c \in ListCalls :
        /\ calls[c].args = OffsetThenLimit
        /\ InsertedKeys(calls[c].args) = <<(<<"offset">>), (<<"limit">>)>>
        /\ After(calls[c].request.url, "?") = LimitOffsetQuery

-----------------------------------------------------------------------------
(* Query strings (SpecQuery) *)

\* What a server decodes from a query-string value.
FormDecodeChar(a) ==
    CASE a = "+" -> " "
      [] a = "%26" -> "&"
      [] a = "%3D" -> "="
      [] a = "%3F" -> "?"
      [] a = "%23" -> "#"
      [] a = "%2B" -> "+"
      [] a = "%25" -> "%"
      [] a = "%2F" -> "/"
      [] OTHER -> a
FormDecode(s) == [i \in 1..Len(s) |-> FormDecodeChar(s[i])]

\* The characters that must not appear as themselves in an encoded value.
Reserved == {"&", "=", "?", "#", " "}
IsEncoded(value) == \A i \in 1..Len(value) : value[i] \notin Reserved

\* The query a server receives: the fragment, from the first "#", is not sent.
ReceivedPairs(url) == QueryPieces(Before(After(url, "?"), "#"))

\* The request carries, for the key, one value, encoded, that decodes to the
\* value the caller passed, and the server receives that pair.
CarriesOnce(url, name, value) ==
    /\ Len(QueryValues(url, name)) = 1
    /\ IsEncoded(QueryValues(url, name)[1])
    /\ FormDecode(QueryValues(url, name)[1]) = value
    /\ \E i \in 1..Len(ReceivedPairs(url)) :
          ReceivedPairs(url)[i] = KeyValue(<<name>>, QueryValues(url, name)[1])

FilterText(name, v) ==
    CASE name = "featured" -> <<"1">>
      [] v.t = "number" -> NumberToString(v.n)
      [] OTHER -> v.s

\* C19 as stated: the slug of products.getBySlug, the order id of
\* orders.getById and every filter value products.list sends is URL-encoded
\* in the request URL, so that the query carries one value for its key,
\* which decodes to the value passed, and no other key.
C19_Original ==
    \A c \in 1..Len(calls) :
        LET url == calls[c].request.url IN
        /\ calls[c].op = "products.getBySlug" =>
              /\ CarriesOnce(url, "slug", calls[c].args.s)
              /\ Len(QueryPairs(url)) = 1
        /\ calls[c].op = "orders.getById" =>
              /\ CarriesOnce(url, "id", calls[c].args.s)
              /\ Len(QueryPairs(url)) = 1
        /\ calls[c].op = "products.list" =>
              /\ \A name \in FilterKeys :
                    SuppliedTruthy(calls[c].args, name) =>
                        CarriesOnce(url, name, FilterText(name, Get(calls[c].args, name)))
              /\ \A i \in 1..Len(QueryPairs(url)) :
                    \E name \in FilterKeys :
                        /\ QueryPairs(url)[i].k = <<name>>
                        /\ SuppliedTruthy(calls[c].args, name)

-----------------------------------------------------------------------------
(* The auth group (SpecAuth) *)

\* A step of auth.logout, or a return of isAuthenticated or getCurrentUser.
LocalStep ==
    \/ logoutPc' # logoutPc
    \/ ret' # NoRet

AuthPath(op) == IF op = "auth.register" THEN <<"/auth/register.php">> ELSE <<"/auth/login.php">>

\* C20: auth.register sends POST /auth/register.php and auth.login sends
\* POST /auth/login.php, both under the one HTTPS base URL and with the
\* caller's data as JSON body; a step of auth.logout and a return of
\* auth.getCurrentUser or auth.isAuthenticated sends no request and starts
\* no call, whatever the session and the calls in flight are.
C20_AuthEndpoints ==
    [][ /\ \A c \in 1..Len(calls') :
              calls'[c].op \in {"auth.register", "auth.login"} =>
                  /\ calls'[c].request.method = "POST"
                  /\ calls'[c].request.url =
                        <<"https://smarthubsec.com.ng/api">> \o AuthPath(calls'[c].op)
                  /\ calls'[c].request.body.t = "string"
                  /\ JSONparse(calls'[c].request.body.s).ok
                  /\ JSONparse(calls'[c].request.body.s).v = calls'[c].args
                  /\ fetchLog'[c] = calls'[c].request
        /\ LocalStep => (fetchLog' = fetchLog /\ calls' = calls) ]_vars

\* auth.login has sent POST /auth/login.php with a password that holds a
\* backslash, the request is in flight, and isAuthenticated has returned
\* false without another request.
C20_Witness ==
    /\ Len(calls) = 1
    /\ calls[1].op = "auth.login"
    /\ Get(calls[1].args, "password") = Str(<<"p", "\\", "w">>)
    /\ fetchLog = <<calls[1].request>>
    /\ fetchLog[1].method = "POST"
    /\ fetchLog[1].url = API_BASE_URL \o <<"/auth/login.php">>
    /\ calls[1].status = "fetching"
    /\ ret = Returned("isAuthenticated", "self", Bool(FALSE))

-----------------------------------------------------------------------------
(* The StaffManagement page (SpecStaff) *)

NotImplemented ==
    { "Staff management endpoints not yet implemented",
      "Add staff endpoint not yet implemented",
      "Update role endpoint not yet implemented",
      "Remove staff endpoint not yet implemented" }
NotImplementedShown(shown) ==
    \E i \in 1..Len(shown) : shown[i].kind = "error" /\ shown[i].message \in NotImplemented
FetchStaffRan(shown) ==
    \E i \in 1..Len(shown) :
        shown[i] = ErrorToast("Staff management endpoints not yet implemented")
Declined(handler) == handler.op = "handleRemoveStaff" /\ ~handler.confirmed

\* C23 as stated: after every handler the staff list is empty and no request
\* was sent; every handler that ran, handleRemoveStaff with the confirmation
\* declined included, has shown a 'not yet implemented' error; and loading
\* is false once fetchStaff has run.
C23_Original ==
    [][ /\ staff'.staff = <<>>
        /\ fetchLog' = <<>> /\ calls' = <<>>
        /\ staff'.last.op # "none" => NotImplementedShown(staff'.shown)
        /\ FetchStaffRan(staff'.shown) => ~staff'.loading
        /\ ~staff.loading => ~staff'.loading ]_vars

\* C23 amended: after every handler the staff list is empty and no request
\* was sent; fetchStaff, handleAddStaff, handleUpdateRole and
\* handleRemoveStaff with the confirmation accepted each show a 'not yet
\* implemented' error and leave loading false; handleRemoveStaff with the
\* confirmation declined shows nothing and changes nothing; loading, once
\* false, stays false.
C23_StaffStubs ==
    [][ /\ staff'.staff = <<>>
        /\ fetchLog' = <<>> /\ calls' = <<>>
        /\ (staff'.last.op # "none" /\ ~Declined(staff'.last)) =>
              /\ NotImplementedShown(staff'.shown)
              /\ FetchStaffRan(staff'.shown)
              /\ ~staff'.loading
        /\ Declined(staff'.last) => staff'.shown = <<>>
        /\ (Declined(staff'.last) /\ staff'.last # staff.last) =>
              staff' = Handling(staff, "handleRemoveStaff", staff'.last.userId, "", FALSE)
        /\ ~staff.loading => ~staff'.loading ]_vars

\* fetchStaff has run, the dialog is open with an address typed in, and
\* handleRemoveStaff was then called and declined: it has shown no toast,
\* and the dialog and the address are as they were.
C23_Witness ==
    /\ Declined(staff.last)
    /\ staff.shown = <<>>
    /\ ~staff.loading
    /\ staff.dialogOpen
    /\ staff.newStaffEmail = "new@shop.io"
    /\ staff.staff = <<>>
    /\ fetchLog = <<>>

-----------------------------------------------------------------------------
(* The Checkout page (SpecCheckout) *)

SignInEffects ==
    <<Toast("Please sign in", <<"You need to be signed in to place an order">>, "destructive"),
      Navigate(<<"/auth">>)>>
EmptyCartEffects ==
    <<Toast("Cart is empty", <<"Please add items to your cart before checkout">>, "destructive")>>
Did(st, effect) == \E i \in 1..Len(st.effects) : st.effects[i] = effect
Position(st, effect) == CHOOSE i \in 1..Len(st.effects) : st.effects[i] = effect

\* A step in which handleSubmit is invoked and does something the page can
\* observe, and a step of an early return: nothing sent, the cart and loading
\* as they were, clearCart not called.
Submitted == checkout.pc = "idle" /\ checkout'.effects # checkout.effects
NothingSent ==
    /\ calls' = calls
    /\ fetchLog' = fetchLog
    /\ checkout'.cartItems = checkout.cartItems
    /\ ~checkout'.loading
    /\ checkout'.pc = "idle"
    /\ ~Did(checkout', Called("clearCart"))
    /\ ~Did(checkout', Called("orders.create"))

\* C24: handleSubmit calls orders.create only when a user is signed in and
\* the cart is non-empty; with no user it shows 'Please sign in' and navigates
\* to /auth, with a user and an empty cart it shows 'Cart is empty', and in
\* both cases no request is sent, the cart is not cleared and loading stays
\* false; every request the page sends is the orders.create of a submission
\* with a user and a non-empty cart.
C24_SubmitGuards ==
    [][ /\ Submitted =>
             IF ~ToBoolean(checkout.user)
             THEN checkout'.effects = SignInEffects /\ NothingSent
             ELSE IF Len(checkout.cartItems) = 0
             THEN checkout'.effects = EmptyCartEffects /\ NothingSent
             ELSE /\ Len(calls') = Len(calls) + 1
                  /\ checkout'.effects = <<SetLoading(TRUE), Called("orders.create")>>
        /\ calls' # calls /\ Len(calls') > Len(calls) =>
             /\ Submitted
             /\ ToBoolean(checkout.user)
             /\ Len(checkout.cartItems) # 0
             /\ calls'[Len(calls')].op = "orders.create"
             /\ calls'[Len(calls')].args = CheckoutOrderData(checkout)
      ]_vars

\* An order was placed, the cart is empty since, and the signed-in user
\* submitted again: 'Cart is empty', and still one request.
C24_Witness ==
    /\ checkout.effects = EmptyCartEffects
    /\ ToBoolean(checkout.user)
    /\ Len(calls) = 1
    /\ Len(fetchLog) = 1
    /\ ~checkout.loading

PlacedToast == Toast("Order placed!", <<"Your order has been confirmed.">>, "default")
ReceiptNavigations(st) ==
    { i \in 1..Len(st.effects) :
        /\ st.effects[i].kind = "navigate"
        /\ st.effects[i].path # <<>>
        /\ Head(st.effects[i].path) = <<"/receipt/">>[1] }
\* The id of the order in the response of the submission's request.
CreatedOrderId(call) == Get(Get(Get(call.value, "data"), "order"), "id")

\* C25: clearCart is called only after the submission's orders.create has
\* resolved; 'Order placed!' is shown only after clearCart too has resolved;
\* a navigation to a receipt comes only after 'Order placed!' and goes to
\* /receipt/<the id of the order in the response>; and when orders.create
\* rejects, the handler ends without calling clearCart, without changing the
\* cart and without navigating to a receipt.
C25_Order ==
    LET submission == calls[checkout.call] IN
    /\ Did(checkout, Called("clearCart")) =>
          /\ submission.op = "orders.create"
          /\ submission.status = "resolved"
          /\ checkout.clearCart # "none"
          /\ Did(checkout, Called("orders.create"))
          /\ Position(checkout, Called("orders.create")) < Position(checkout, Called("clearCart"))
    /\ checkout.clearCart # "none" => Did(checkout, Called("clearCart"))
    /\ Did(checkout, PlacedToast) =>
          /\ submission.status = "resolved"
          /\ checkout.clearCart = "resolved"
          /\ Position(checkout, Called("clearCart")) < Position(checkout, PlacedToast)
    /\ \A i \in ReceiptNavigations(checkout) :
          /\ Did(checkout, PlacedToast)
          /\ Position(checkout, PlacedToast) < i
          /\ CreatedOrderId(submission).t = "string"
          /\ checkout.effects[i].path = <<"/receipt/">> \o CreatedOrderId(submission).s
    /\ (checkout.call > 0 /\ checkout.pc # "creating" /\ Did(checkout, Called("orders.create"))
            /\ submission.status = "rejected") =>
          /\ ~Did(checkout, Called("clearCart"))
          /\ checkout.clearCart = "none"
          /\ ReceiptNavigations(checkout) = {}
          /\ ~Did(checkout, PlacedToast)
C25_CartKeptOnRejection ==
    (checkout.pc = "creating" /\ checkout'.pc = "idle") =>
        /\ calls[checkout.call].status = "rejected"
        /\ checkout'.cartItems = checkout.cartItems
C25_ClearCartAfterCreate == []C25_Order /\ [][C25_CartKeptOnRejection]_vars

\* The order was created, the cart cleared, and the page has gone to the
\* receipt of the order.
C25_Witness ==
    /\ checkout.pc = "idle"
    /\ checkout.call = 1
    /\ calls[1].status = "resolved"
    /\ checkout.clearCart = "resolved"
    /\ checkout.cartItems = <<>>
    /\ checkout.effects =
         <<SetLoading(TRUE), Called("orders.create"), Called("clearCart"), PlacedToast,
           Navigate(<<"/receipt/", "ord-1">>), SetLoading(FALSE)>>

\* The 'Error' outcome, and an order created: the backend answered the
\* submission's orders.create with a success envelope, which is when the
\* call resolves.
ErrorShown(st) ==
    \E i \in 1..Len(st.effects) :
        st.effects[i].kind = "toast" /\ st.effects[i].title = "Error"
OrderCreated(call) == call.op = "orders.create" /\ call.status = "resolved"

\* C26: whenever a submission shows the 'Error' outcome, no order was
\* created by that submission.
C26_Original == ErrorShown(checkout) => ~OrderCreated(calls[checkout.call])

-----------------------------------------------------------------------------
(* The Checkout page when pending calls settle (SpecCheckoutLive) *)

\* handleSubmit is waiting for orders.create, or for clearCart.
OrderRequestPending == checkout.pc = "creating"
CartClearingPending == checkout.clearCart = "pending"
LoadingWhilePending ==
    /\ checkout.loading <=> (OrderRequestPending \/ CartClearingPending)
    /\ CartClearingPending <=> checkout.pc = "clearing"
    /\ checkout.loading =>
          /\ Len(checkout.effects) >= 2
          /\ checkout.effects[1] = SetLoading(TRUE)
          /\ checkout.effects[2] = Called("orders.create")
          /\ ~Did(checkout, SetLoading(FALSE))
    /\ (~checkout.loading /\ Did(checkout, SetLoading(TRUE))) =>
          checkout.effects[Len(checkout.effects)] = SetLoading(FALSE)

\* C27: loading is true exactly while handleSubmit waits for orders.create
\* or for clearCart; setLoading(true) comes before the call of orders.create;
\* and when the pending calls settle, loading returns to false after every
\* submission, however orders.create and clearCart settled.
C27_LoadingReturns ==
    /\ []LoadingWhilePending
    /\ (checkout.loading ~> ~checkout.loading)

\* orders.create resolved, clearCart rejected, and loading is false again.
C27_Witness ==
    /\ ~checkout.loading
    /\ checkout.pc = "idle"
    /\ checkout.call > 0
    /\ calls[checkout.call].status = "resolved"
    /\ checkout.clearCart = "rejected"
    /\ checkout.effects[Len(checkout.effects)] = SetLoading(FALSE)

-----------------------------------------------------------------------------
(* The Analytics page (SpecAnalytics) *)

RECURSIVE SumOver(_, _)
SumOver(f, S) ==
    IF S = {} THEN 0
    ELSE LET x == CHOOSE x \in S : TRUE IN f[x] + SumOver(f, S \ {x})
OrderTotals(ordersList) == [i \in 1..Len(ordersList) |-> ToNumber(Get(ordersList[i], "total"))]
FirstOfCustomer(ordersList) ==
    { i \in 1..Len(ordersList) :
        \A j \in 1..(i - 1) : Get(ordersList[j], "user_id") # Get(ordersList[i], "user_id") }

\* The statistics and the per-date rows agree with an order list, and with
\* each other.
ConsistentWith(st, ordersList) ==
    /\ st.stats.totalOrders = Len(ordersList)
    /\ st.stats.totalRevenue = SumOver(OrderTotals(ordersList), 1..Len(ordersList))
    /\ st.stats.totalCustomers = Cardinality(FirstOfCustomer(ordersList))
SelfConsistent(st) ==
    /\ SumOver([i \in 1..Len(st.dailyData) |-> st.dailyData[i].revenue], 1..Len(st.dailyData))
          = st.stats.totalRevenue
    /\ SumOver([i \in 1..Len(st.dailyData) |-> st.dailyData[i].orders], 1..Len(st.dailyData))
          = st.stats.totalOrders
    /\ \A i, j \in 1..Len(st.dailyData) : i # j => st.dailyData[i].date # st.dailyData[j].date
    /\ IF st.stats.totalOrders = 0
       THEN st.stats.avgOrderValue = Quotient(0, 1)
       ELSE /\ st.stats.avgOrderValue.den # 0
            /\ st.stats.avgOrderValue.num * st.stats.totalOrders
                  = st.stats.totalRevenue * st.stats.avgOrderValue.den

\* A step in which fetchAnalytics ends.
RunEnds == analytics.pc # "idle" /\ analytics'.pc = "idle"
BothFetched ==
    /\ analytics.pc = "products"
    /\ calls[analytics.ordersCall].status = "resolved"
    /\ calls[analytics.call].status = "resolved"
    /\ ~DataThrows(calls[analytics.call].value)
C29_RunEnds ==
    RunEnds =>
        /\ ~analytics'.loading
        /\ IF BothFetched
           THEN /\ analytics'.last = "fetched"
                /\ ConsistentWith(analytics', ListOf(calls[analytics.ordersCall].value, "orders"))
                /\ analytics'.stats.totalProducts
                     = Len(ListOf(calls[analytics.call].value, "products"))
           ELSE /\ analytics'.last = "failed"
                /\ calls[analytics.call].status = "rejected" \/ DataThrows(calls[analytics.call].value)
                /\ analytics'.stats = analytics.stats
                /\ analytics'.dailyData = analytics.dailyData
                /\ analytics'.topProducts = analytics.topProducts

-----------------------------------------------------------------------------
(* The order summary (SpecSummary) *)

\* C30: shipping is free exactly when the subtotal is more than 50 and is
\* 9.99 otherwise, so at a subtotal of exactly 50; tax is 8% of the
\* subtotal; total is subtotal + shipping + tax; and the total shown is the
\* total to the nearest cent, which is the sum of the subtotal, the shipping
\* and the tax shown.
C30_Totals ==
    LET cents == checkout.subtotal
        summary == checkout.summary
    IN /\ summary.shipping = 0 <=> cents > 5000
       /\ summary.shipping # 0 => summary.shipping = 999
       /\ cents = 5000 => summary.shipping = 999 /\ ~summary.shown.free
       /\ summary.shown.free <=> cents > 5000
       /\ 100 * summary.tax = 8 * (100 * cents)
       /\ summary.total = 100 * cents + 100 * summary.shipping + summary.tax
       /\ 100 * summary.shown.total - summary.total \in -49..50
       /\ summary.shown.subtotal = cents
       /\ summary.shown.shipping = summary.shipping
       /\ summary.shown.total
            = summary.shown.subtotal + summary.shown.shipping + summary.shown.tax

\* A subtotal of exactly 50.00: shipping 9.99, tax 4.00, total 63.99.
C30_Witness ==
    /\ checkout.subtotal = 5000
    /\ checkout.summary.shipping = 999
    /\ checkout.summary.shown.tax = 400
    /\ checkout.summary.shown.total = 6399

=============================================================================
